---- MODULE Spec2Model ----
(***************************************************************************)
(* Model of the maker repository's time parser (maker/shared.py) and of    *)
(* the Cutter's clip/audio operations with the artifact log                *)
(* (maker/video/cutter.py, ManifestManager.append_artifact_record).        *)
(*                                                                         *)
(* Texts are sequences of one-character strings.  Times are Python floats, *)
(* modelled bit for bit as IEEE-754 doubles, so that the division by 1000  *)
(* in parse_time and the rounding to three decimals in format_time are     *)
(* real computations.                                                      *)
(***************************************************************************)
EXTENDS Integers, Sequences, FiniteSets, TLC

VARIABLES
    files,       \* the files under the output directories: path -> content
    dirs,        \* the output directories that exist
    logs,        \* artifacts.jsonl of each output directory, a sequence of lines
    engineRuns,  \* how many transcodes were started so far
    okCount,     \* per directory, how many calls returned a spec
    done,        \* the requests that returned a spec
    nCalls,      \* how many calls were made
    last,        \* the latest call: operation, arguments, result
    timeCall,    \* the latest application of a time function
    manifests,   \* the files of the downloads directory: path -> content
    media,       \* the paths outside the downloads directory that exist
    lastWritten, \* per alias, the spec of the latest write_download_manifest
    nWrites,     \* how many manifests were written
    storeCall,   \* the latest operation on the store
    cmdCall,     \* the latest command handler that ran
    fitCall,     \* the latest application of calculate_fit_size
    proc,        \* per invocation running step by step: position, arguments, steps done
    shared,      \* the output directory those invocations share
    dl,          \* the Downloader instance and the download it is running
    dlStore,     \* the manifests in its downloads directory
    pathCall,    \* the latest pair of output paths computed
    ensureCall   \* the latest construction of a Cutter

vars ==
    <<files, dirs, logs, engineRuns, okCount, done, nCalls, last, timeCall,
      manifests, media, lastWritten, nWrites, storeCall, cmdCall, fitCall,
      proc, shared, dl, dlStore, pathCall, ensureCall>>

\* the state of the step-by-step invocations
stepVars == <<proc, shared>>

\* the state the Cutter, the store and the pure functions do not touch
\* the Downloader and its downloads directory
dlVars == <<dl, dlStore>>

extraVars == <<stepVars, dlVars, pathCall, ensureCall>>

storeVars == <<manifests, media, lastWritten, nWrites, storeCall>>

cutterVars == <<files, dirs, logs, engineRuns, okCount, done, nCalls, last>>

(***************************************************************************)
(* Bounds                                                                  *)
(***************************************************************************)
\* sub-millisecond steps of the values format_time is applied to
SubSteps == 4
\* hours 0..MaxHours (and 100) are drawn for format_time
MaxHours == 1
\* number of clip/audio invocations in one behaviour
MaxCalls == 2
\* number of write_download_manifest calls in one behaviour
MaxWrites == 2


(***************************************************************************)
(* Text helpers: what str.strip, str.split, int() and float() do on the    *)
(* alphabet digits, '.', ':', '-', '+', ' ' and the junk letter 'x'.       *)
(***************************************************************************)
DigitChars == <<"0", "1", "2", "3", "4", "5", "6", "7", "8", "9">>

Digit == {DigitChars[i] : i \in 1..10}

DigitVal(c) == (CHOOSE i \in 1..10 : DigitChars[i] = c) - 1

RECURSIVE Pow10(_)
Pow10(n) == IF n = 0 THEN 1 ELSE 10 * Pow10(n - 1)

RECURSIVE LStrip(_)
LStrip(s) == IF s # <<>> /\ Head(s) = " " THEN LStrip(Tail(s)) ELSE s

RECURSIVE RStrip(_)
RStrip(s) ==
    IF s # <<>> /\ s[Len(s)] = " " THEN RStrip(SubSeq(s, 1, Len(s) - 1)) ELSE s

\* str.strip()
Strip(s) == RStrip(LStrip(s))

\* str.split(sep): always at least one part, empty parts kept
RECURSIVE Split(_, _)
Split(s, sep) ==
    IF \E i \in 1..Len(s) : s[i] = sep
    THEN LET i == CHOOSE k \in 1..Len(s) :
                      s[k] = sep /\ \A j \in 1..(k - 1) : s[j] # sep
         IN  <<SubSeq(s, 1, i - 1)>> \o Split(SubSeq(s, i + 1, Len(s)), sep)
    ELSE <<s>>

AllDigits(s) == \A i \in 1..Len(s) : s[i] \in Digit

\* value of a digit sequence (0 for the empty one)
RECURSIVE DigitsVal(_)
DigitsVal(s) ==
    IF s = <<>> THEN 0
    ELSE 10 * DigitsVal(SubSeq(s, 1, Len(s) - 1)) + DigitVal(s[Len(s)])

HasSign(s) == s # <<>> /\ Head(s) \in {"-", "+"}

Unsigned(s) == IF HasSign(s) THEN Tail(s) ELSE s

SignOf(s) == IF s # <<>> /\ Head(s) = "-" THEN -1 ELSE 1

\* int(text) succeeds: surrounding blanks, an optional sign, one or more digits
IsInt(s) ==
    LET u == Unsigned(Strip(s)) IN u # <<>> /\ AllDigits(u)

IntVal(s) == SignOf(Strip(s)) * DigitsVal(Unsigned(Strip(s)))

\* float(text) succeeds: surrounding blanks, an optional sign, digits with at
\* most one '.', at least one digit
IsFloat(s) ==
    LET u == Unsigned(Strip(s))
        p == Split(u, ".")
    IN  /\ Len(p) \in {1, 2}
        /\ \A i \in 1..Len(p) : AllDigits(p[i])
        /\ \E i \in 1..Len(p) : p[i] # <<>>

(***************************************************************************)
(* Python floats.  A float is an IEEE-754 double: a sign, and a magnitude  *)
(* of at most Precision significant bits, kept here exactly as an integer  *)
(* part and the bits of the binary fraction (no trailing zero bit, zero    *)
(* unsigned).  Every arithmetic result is rounded to the nearest double,   *)
(* a tie going to the even one.                                            *)
(***************************************************************************)
\* sys.float_info.mant_dig
Precision == 53

Zero == [neg |-> FALSE, int |-> 0, frac |-> <<>>]

RECURSIVE BitLen(_)
BitLen(n) == IF n = 0 THEN 0 ELSE 1 + BitLen(n \div 2)

\* a bit string without its trailing zeros
StripZeros(b) ==
    SubSeq(b, 1, Cardinality({i \in 1..Len(b) : \E j \in i..Len(b) : b[j] = 1}))

Dyadic(neg, int, frac) ==
    LET f == StripZeros(frac)
    IN  [neg |-> neg /\ (int > 0 \/ f # <<>>), int |-> int, frac |-> f]

Bit(b, i) == IF i <= Len(b) THEN b[i] ELSE 0

LeadingZeros(b) ==
    IF \E i \in 1..Len(b) : b[i] = 1
    THEN (CHOOSE i \in 1..Len(b) : b[i] = 1 /\ \A j \in 1..(i - 1) : b[j] = 0) - 1
    ELSE Len(b)

\* one unit added in the last place of a bit string
IncBits(b) ==
    LET z == Cardinality({i \in 1..Len(b) : \E j \in i..Len(b) : b[j] = 0})
    IN  [bits |-> [i \in 1..Len(b) |-> IF i < z THEN b[i] ELSE IF i = z THEN 1 ELSE 0],
         carry |-> IF z = 0 THEN 1 ELSE 0]

\* the double nearest to the magnitude int + 0.frac, round-half-to-even
RoundToPrecision(neg, int, frac) ==
    LET keep == IF int > 0 THEN Precision - BitLen(int)
                ELSE LeadingZeros(frac) + Precision
    IN  IF Len(frac) <= keep THEN Dyadic(neg, int, frac)
        ELSE LET head == SubSeq(frac, 1, keep)
                 sticky == \E i \in (keep + 2)..Len(frac) : frac[i] = 1
                 odd == IF keep = 0 THEN int % 2 = 1 ELSE head[keep] = 1
                 inc == IncBits(head)
             IN  IF frac[keep + 1] = 1 /\ (sticky \/ odd)
                 THEN Dyadic(neg, int + inc.carry, inc.bits)
                 ELSE Dyadic(neg, int, head)

\* the eight bits of v < 256, the highest first
Byte(v) == [i \in 1..8 |-> (v \div (2 ^ (8 - i))) % 2]

\* the binary fraction of r / q (r < q < 2^23): its first 8 * n bits, then
\* one more bit that says whether anything is left
RECURSIVE QuotientBits(_, _, _)
QuotientBits(r, q, n) ==
    IF r = 0 THEN <<>>
    ELSE IF n = 0 THEN <<1>>
    ELSE Byte((256 * r) \div q) \o QuotientBits((256 * r) % q, q, n - 1)

\* p / q of two ints (true division), also the value of a decimal literal
\* with numerator p and denominator q: the nearest double
TrueDiv(p, q) ==
    LET a == IF p < 0 THEN -p ELSE p
        i == a \div q
    IN  RoundToPrecision(p < 0, i, QuotientBits(a % q, q, 10))

\* 1 - 0.frac, for a fraction that is not zero
Complement(frac) ==
    [i \in 1..Len(frac) |-> IF i = Len(frac) THEN 1 ELSE 1 - frac[i]]

\* n + f of an int n and a float f
IntPlusFloat(n, f) ==
    LET a == IF n < 0 THEN -n ELSE n
    IN  IF n = 0 THEN f
        ELSE IF (n < 0) = f.neg THEN RoundToPrecision(f.neg, a + f.int, f.frac)
        ELSE IF a <= f.int THEN RoundToPrecision(f.neg, f.int - a, f.frac)
        ELSE IF f.frac = <<>> THEN Dyadic(n < 0, a - f.int, <<>>)
        ELSE RoundToPrecision(n < 0, a - f.int - 1, Complement(f.frac))

\* a bit string cut or zero-filled to n bits
PadTo(b, n) == [i \in 1..n |-> Bit(b, i)]

\* the value of the k-th group of eight bits
ByteAt(b, k) ==
    LET o == 8 * (k - 1)
    IN  128 * b[o + 1] + 64 * b[o + 2] + 32 * b[o + 3] + 16 * b[o + 4]
          + 8 * b[o + 5] + 4 * b[o + 6] + 2 * b[o + 7] + b[o + 8]

\* n * 0.b + c / 256^k on the first k bytes of b, exactly
RECURSIVE MulBytes(_, _, _, _)
MulBytes(n, b, k, c) ==
    IF k = 0 THEN [int |-> c, frac |-> <<>>]
    ELSE LET t == n * ByteAt(b, k) + c
             rest == MulBytes(n, b, k - 1, t \div 256)
         IN  [int |-> rest.int, frac |-> rest.frac \o Byte(t % 256)]

\* 0.u + 0.v + c / 256^k on the first k bytes of u and v, exactly
RECURSIVE AddBytes(_, _, _, _)
AddBytes(u, v, k, c) ==
    IF k = 0 THEN [int |-> c, frac |-> <<>>]
    ELSE LET t == ByteAt(u, k) + ByteAt(v, k) + c
             rest == AddBytes(u, v, k - 1, t \div 256)
         IN  [int |-> rest.int, frac |-> rest.frac \o Byte(t % 256)]

\* the product of an int n >= 0 and a float, before rounding
ExactTimes(n, f) ==
    LET k == (Len(f.frac) + 7) \div 8
        m == MulBytes(n, PadTo(f.frac, 8 * k), k, 0)
    IN  Dyadic(f.neg, n * f.int + m.int, m.frac)

\* the sum of two floats that are not negative, before rounding
ExactPlus(f, g) ==
    LET k == ((IF Len(f.frac) < Len(g.frac) THEN Len(g.frac) ELSE Len(f.frac)) + 7) \div 8
        s == AddBytes(PadTo(f.frac, 8 * k), PadTo(g.frac, 8 * k), k, 0)
    IN  Dyadic(FALSE, f.int + g.int + s.int, s.frac)

\* n * f of an int n >= 0 and a float f
IntTimesFloat(n, f) ==
    LET p == ExactTimes(n, f)
    IN  RoundToPrecision(p.neg, p.int, p.frac)

\* -f
Negated(f) == Dyadic(~f.neg, f.int, f.frac)

\* f / 2
Halved(f) == Dyadic(f.neg, f.int \div 2, <<f.int % 2>> \o f.frac)

FracLess(u, v) ==
    \E i \in 1..Len(v) :
        Bit(u, i) < Bit(v, i) /\ \A j \in 1..(i - 1) : Bit(u, j) = Bit(v, j)

MagLess(x, y) == x.int < y.int \/ (x.int = y.int /\ FracLess(x.frac, y.frac))

\* x < y
FloatLess(x, y) ==
    IF x.neg # y.neg THEN x.neg
    ELSE IF x.neg THEN MagLess(y, x) ELSE MagLess(x, y)

\* x >= y
FloatGE(x, y) == ~FloatLess(x, y)

\* float(text)
FloatOf(s) ==
    LET u == Unsigned(Strip(s))
        p == Split(u, ".")
        frac == IF Len(p) = 2 THEN p[2] ELSE <<>>
    IN  TrueDiv(SignOf(Strip(s)) * DigitsVal(p[1] \o frac), Pow10(Len(frac)))

Ok(v) == [ok |-> TRUE, val |-> v, err |-> "none"]

Raise(e) == [ok |-> FALSE, val |-> Zero, err |-> e]

(***************************************************************************)
(* parse_time (maker/shared.py)                                            *)
(***************************************************************************)
\* the seconds field "SS[.mmm]" of the colon forms: int(sec_parts[0]) and
\* int(sec_parts[1]) when a second '.'-field is present
sec_parts_ok(t) ==
    LET sp == Split(t, ".")
    IN  IsInt(sp[1]) /\ (Len(sp) > 1 => IsInt(sp[2]))

seconds_of(t) == IntVal(Split(t, ".")[1])

millis_of(t) ==
    LET sp == Split(t, ".") IN IF Len(sp) > 1 THEN IntVal(sp[2]) ELSE 0

parse_time(time_str) ==
    IF IsFloat(time_str) THEN Ok(FloatOf(time_str))
    ELSE LET parts == Split(Strip(time_str), ":")
         IN  IF Len(parts) = 3
             THEN IF IsInt(parts[1]) /\ IsInt(parts[2]) /\ sec_parts_ok(parts[3])
                  THEN Ok(IntPlusFloat(IntVal(parts[1]) * 3600
                                         + IntVal(parts[2]) * 60
                                         + seconds_of(parts[3]),
                                       TrueDiv(millis_of(parts[3]), 1000)))
                  ELSE Raise("InvalidTimeFormat")
             ELSE IF Len(parts) = 2
             THEN IF IsInt(parts[1]) /\ sec_parts_ok(parts[2])
                  THEN Ok(IntPlusFloat(IntVal(parts[1]) * 60 + seconds_of(parts[2]),
                                       TrueDiv(millis_of(parts[2]), 1000)))
                  ELSE Raise("InvalidTimeFormat")
             ELSE Raise("InvalidTimeFormat")

(***************************************************************************)
(* format_time (maker/shared.py), for seconds >= 0                         *)
(***************************************************************************)
RECURSIVE ToDigits(_)
ToDigits(n) ==
    IF n < 10 THEN <<DigitChars[n + 1]>>
    ELSE ToDigits(n \div 10) \o <<DigitChars[(n % 10) + 1]>>

RECURSIVE ZeroPad(_, _)
ZeroPad(s, w) == IF Len(s) >= w THEN s ELSE ZeroPad(<<"0">> \o s, w)

\* "{n:0wd}"
PadInt(n, w) == ZeroPad(ToDigits(n), w)

\* 0.frac * 1000: its integer part, the next binary digit, and whether
\* anything is left below that digit
RECURSIVE Thousandths(_)
Thousandths(frac) ==
    IF frac = <<>> THEN [n |-> 0, half |-> 0, sticky |-> FALSE]
    ELSE LET r == Thousandths(SubSeq(frac, 9, Len(frac)))
             byte == [i \in 1..8 |-> Bit(frac, i) * 2 ^ (8 - i)]
             t == (byte[1] + byte[2] + byte[3] + byte[4]
                     + byte[5] + byte[6] + byte[7] + byte[8]) * 1000 + r.n
         IN  [n |-> t \div 256, half |-> (t % 256) \div 128,
              sticky |-> (t % 128 # 0) \/ r.half = 1 \/ r.sticky]

\* the value int + 0.frac in milliseconds, rounded as "%.3f" rounds: to the
\* nearest, an exact tie going to the even one
RoundMs(int, frac) ==
    LET th == Thousandths(frac)
        up == th.half = 1 /\ (th.sticky \/ th.n % 2 = 1)
    IN  int * 1000 + th.n + (IF up THEN 1 ELSE 0)

\* mutant: the thousandths not zero-padded
FormatSecsUnpadded(int, frac) ==
    LET ms == RoundMs(int, frac)
    IN  PadInt(ms \div 1000, 2) \o <<".">> \o ToDigits(ms % 1000)

\* "{secs:06.3f}"
FormatSecs(int, frac) ==
    LET ms == RoundMs(int, frac)
    IN  PadInt(ms \div 1000, 2) \o <<".">> \o PadInt(ms % 1000, 3)

format_time(seconds) ==
    LET hours == seconds.int \div 3600
        minutes == (seconds.int % 3600) \div 60
    IN  PadInt(hours, 2) \o <<":">> \o PadInt(minutes, 2) \o <<":">>
            \o FormatSecs(seconds.int % 60, seconds.frac)

(***************************************************************************)
(* parse_range (maker/shared.py)                                           *)
(***************************************************************************)
RangeOk(s, e) == [ok |-> TRUE, start |-> s, end |-> e, err |-> "none"]

RangeRaise(x) == [ok |-> FALSE, start |-> Zero, end |-> Zero, err |-> x]

\* mutant: "start > end", a zero-length range let through
parse_range_strict(start, end) ==
    LET s == parse_time(start)
    IN  IF ~s.ok THEN RangeRaise(s.err)
        ELSE LET e == parse_time(end)
             IN  IF ~e.ok THEN RangeRaise(e.err)
                 ELSE IF FloatLess(e.val, s.val) THEN RangeRaise("TimeRange")
                 ELSE RangeOk(s.val, e.val)

parse_range(start, end) ==
    LET s == parse_time(start)
    IN  IF ~s.ok THEN RangeRaise(s.err)
        ELSE LET e == parse_time(end)
             IN  IF ~e.ok THEN RangeRaise(e.err)
                 ELSE IF FloatGE(s.val, e.val) THEN RangeRaise("TimeRange")
                 ELSE RangeOk(s.val, e.val)

(***************************************************************************)
(* Inputs of the time functions                                            *)
(***************************************************************************)
FloatTexts ==
    {
      <<"8", "3", ".", "5">>, <<"8", "3", ".", "5", "0", "0">>, <<"8", "3", ".", "0", "0", "5">>, <<"5">>,
      <<"1", "0">>, <<"6", "0">>, <<"5", "9", ".", "5">>, <<"0", ".", "5">>,
      <<"5", ".">>, <<".", "5">>, <<"-", "5">>, <<" ", "5">>,
      <<"x">>, <<>>, <<".">>, <<"1", ".", "2", ".", "3">>
    }

HourTexts ==
    {
      <<"0", "0">>, <<"1">>, <<"x">>, <<>>
    }

MinuteTexts ==
    {
      <<"1">>, <<"0", "1">>, <<"0", "0">>, <<"0">>,
      <<>>, <<"x">>, <<"-", "1">>, <<" ", "1">>
    }

SecondTexts ==
    {
      <<"2", "3", ".", "5">>, <<"2", "3", ".", "5", "0", "0">>, <<"2", "3", ".", "0", "5", "0">>, <<"2", "3">>,
      <<"0", "0">>, <<"5">>, <<"2", "3", ".">>, <<"2", "3", ".", "5", ".", "6">>,
      <<>>, <<".", "5">>, <<"x">>, <<"5", "9", ".", "5">>,
      <<"5", "9", ".", "5", "0", "0">>, <<"0">>, <<"1", "0">>
    }

ColonTexts ==
    {m \o <<":">> \o s : m \in MinuteTexts, s \in SecondTexts}
      \cup {h \o <<":">> \o m \o <<":">> \o s :
              h \in HourTexts, m \in MinuteTexts, s \in SecondTexts}
      \cup {<<"1", ":", "2", ":", "3", ":", "4">>}

TimeTexts == FloatTexts \cup ColonTexts

RangeTexts ==
    {
      <<"1", "0">>, <<"5">>, <<"6", "0">>, <<"1", ":", "0", "0">>,
      <<"0", ":", "5", "9", ".", "5">>, <<"0", ":", "5", "9", ".", "5", "0", "0">>, <<"x">>, <<"8", "3", ".", "5">>,
      <<"1", ":", "2", "3", ".", "5">>, <<"0", "0", ":", "0", "1", ":", "2", "3", ".", "5", "0", "0">>, <<"-", "5">>, <<"0", "0", ":", "0", "0", ":", "0", "5", ".", "0", "0", "0">>
    }

\* the time values format_time is applied to, each the float nearest to the
\* decimal num / den: the whole milliseconds and SubSteps - 1 values between
\* two of them
TimeValues ==
    {[num |-> ((h * 3600 + m * 60 + s) * 1000 + ms) * SubSteps + sub,
      den |-> 1000 * SubSteps] :
        h \in (0..MaxHours) \cup {100}, m \in {0, 1, 59}, s \in {0, 1, 23, 59},
        ms \in {0, 5, 62, 118, 500, 999}, sub \in 0..(SubSteps - 1)}

WholeMs(q) == q.num % (q.den \div 1000) = 0

\* the floats n and k / 1000
Sec(n) == TrueDiv(n, 1)

Ms(k) == TrueDiv(k, 1000)

(***************************************************************************)
(* The Cutter's world: source files, formats, output directories           *)
(***************************************************************************)
\* two source files with the same stem "v": the first has an audio stream,
\* the second has none
Sources == {"a/v.mp4", "b/v.mkv"}

\* Path(source_path).stem
stem(source_path) == IF source_path = "a/w.mp4" THEN <<"w">> ELSE <<"v">>

HasAudioStream(source_path) == source_path = "a/v.mp4"

\* mutant: the video set holding every Format member
ALL_FORMATS == {"mp4", "mkv", "webm", "gif", "m4a", "wav", "mp3"}

SUPPORTED_VIDEO_FORMATS == {"mp4", "mkv", "webm", "gif"}

SUPPORTED_AUDIO_FORMATS == {"m4a", "wav", "mp3"}

\* every Format member and one name outside the enumeration
Formats == SUPPORTED_VIDEO_FORMATS \cup SUPPORTED_AUDIO_FORMATS \cup {"avi"}

\* clip writes into DEFAULT_OUTPUT_DIR; audio into DEFAULT_AUDIO_DIR or, with
\* output_dir given, into the directory of the clips
ClipDirs == {"clips"}

AudioDirs == {"audio", "clips"}

Dirs == ClipDirs \cup AudioDirs

\* the (start, end) of a request
TimePairs == {<<Sec(5), Sec(10)>>}

\* the (start, end) a caller of Cutter.clip and Cutter.audio may pass: the
\* two methods take any floats, parse_range is not on this path
DirectTimePairs == TimePairs \cup {<<Sec(10), Sec(5)>>, <<Sec(10), Sec(10)>>}

\* what the external engine does during one call: it works, ffprobe fails,
\* the transcode fails before it opens its output, or the transcode fails
\* after it started to write the output
EngineBehaviours == {"ok", "probe_error", "fail_early", "fail_partial"}

EmptyFiles == [p \in {} |-> 0]

Exists(fs, path) == path \in DOMAIN fs

WriteFile(fs, path, content) ==
    [q \in (DOMAIN fs) \cup {path} |-> IF q = path THEN content ELSE fs[q]]

Unlink(fs, path) == [q \in (DOMAIN fs) \ {path} |-> fs[q]]

\* a file the engine wrote: complete or partial, cut from which source, with
\* which streams ("av", "v" or "a")
Content(st, src, streams) == [st |-> st, src |-> src, streams |-> streams]

\* str.replace(old, new) for one-character old and new
Replace(s, old, new) == [i \in 1..Len(s) |-> IF s[i] = old THEN new ELSE s[i]]

\* mutant: the end of the range left out of the file name
get_output_path_start_only(source_path, start, end, fmt, output_dir) ==
    [dir |-> output_dir,
     name |-> stem(source_path) \o <<"_">>
                \o Replace(format_time(start), ":", "-") \o <<".", fmt>>]

\* Cutter._get_output_path: the file name is a sequence of characters that
\* ends with the format name
get_output_path(source_path, start, end, fmt, output_dir) ==
    LET time_suffix == Replace(format_time(start), ":", "-")
                         \o <<"_", "t", "o", "_">>
                         \o Replace(format_time(end), ":", "-")
        filename == stem(source_path) \o <<"_">> \o time_suffix \o <<".", fmt>>
    IN  [dir |-> output_dir, name |-> filename]

\* Path.with_suffix
with_suffix(path, ext) ==
    [dir |-> path.dir, name |-> SubSeq(path.name, 1, Len(path.name) - 1) \o <<ext>>]

\* the output path of every request, computed once
OutputPaths ==
    [s \in Sources, t \in DirectTimePairs, f \in Formats, d \in Dirs |->
        get_output_path(s, t[1], t[2], f, d)]

PathOf(a) == OutputPaths[a.src, <<a.start, a.end>>, a.fmt, a.dir]

\* mutant: every source taken to carry an audio stream
probe_audio_assumed(source_path, env) == TRUE

\* Cutter._probe_audio: an ffprobe error is read as "no audio stream"
probe_audio(source_path, env) ==
    IF env = "probe_error" THEN FALSE ELSE HasAudioStream(source_path)

\* ClipSpec / AudioSpec as written to the log
ArtifactSpec(output_path, a) ==
    [artifact_path |-> output_path, start |-> a.start, end |-> a.end,
     format |-> a.fmt, derived_from |-> a.src]

\* mutant: the log opened with "w", its earlier lines lost
append_artifact_record_truncating(spec, log) == <<spec>>

\* mutant: the line written twice
append_artifact_record_twice(spec, log) == Append(Append(log, spec), spec)

\* ManifestManager.append_artifact_record on the log of one directory:
\* open(artifacts_file, "a") and one line written
append_artifact_record(spec, log) == Append(log, spec)

\* what a call leaves behind: its result and the state of the world
Outcome(res, fs, ds, lg, runs) ==
    [res |-> res, files |-> fs, dirs |-> ds, logs |-> lg, runs |-> runs]

Persist(a, output_path, fs, ds, runs) ==
    Outcome("ok", fs, ds \cup {a.dir},
            [logs EXCEPT ![a.dir] =
                append_artifact_record(ArtifactSpec(output_path, a), logs[a.dir])],
            runs)

\* mutant: the overwrite flag ignored
overwrite_refused_always(fs, output_path, overwrite) == Exists(fs, output_path)

\* "output_path.exists() and not overwrite" of clip and audio
overwrite_refused(fs, output_path, overwrite) == Exists(fs, output_path) /\ ~overwrite

\* mutant: the audio policy checked only after the transcode has run
create_video_clip_late_gate(a, output_path, ds) ==
    LET has_audio == HasAudioStream(a.src)
        streams == IF has_audio THEN "av" ELSE "v"
        written == WriteFile(files, output_path, Content("complete", a.src, streams))
    IN  IF ~has_audio /\ ~a.allow_no_audio
        THEN Outcome("NoAudioStream", written, ds, logs, engineRuns + 1)
        ELSE Persist(a, output_path, written, ds, engineRuns + 1)

\* Cutter._create_video_clip, then the rest of clip
create_video_clip(a, output_path, ds) ==
    LET has_audio == probe_audio(a.src, a.env)
        streams == IF has_audio THEN "av" ELSE "v"
    IN  IF ~has_audio /\ ~a.allow_no_audio
        THEN Outcome("NoAudioStream", files, ds, logs, engineRuns)
        ELSE IF a.env = "probe_error"
        THEN Outcome("ffmpeg.Error", files, ds, logs, engineRuns)
        ELSE IF a.env = "fail_early"
        THEN Outcome("FFmpegError", files, ds, logs, engineRuns + 1)
        ELSE IF a.env = "fail_partial"
        THEN Outcome("FFmpegError",
                     WriteFile(files, output_path, Content("partial", a.src, streams)),
                     ds, logs, engineRuns + 1)
        ELSE Persist(a, output_path,
                     WriteFile(files, output_path, Content("complete", a.src, streams)),
                     ds, engineRuns + 1)

\* Cutter._create_gif, then the rest of clip: palettegen into the .png next
\* to the output, paletteuse into the output, the palette unlinked at the end
create_gif(a, output_path, ds) ==
    LET palette_path == with_suffix(output_path, "png")
    IN  IF a.env = "fail_early"
        THEN Outcome("FFmpegError", Unlink(files, palette_path), ds, logs,
                     engineRuns + 1)
        ELSE IF a.env = "fail_partial"
        THEN Outcome("FFmpegError",
                     Unlink(WriteFile(files, output_path,
                                      Content("partial", a.src, "v")),
                            palette_path),
                     ds, logs, engineRuns + 2)
        ELSE Persist(a, output_path,
                     Unlink(WriteFile(files, output_path,
                                      Content("complete", a.src, "v")),
                            palette_path),
                     ds, engineRuns + 2)

\* mutant: the existence check made before the format check
clip_overwrite_first(a) ==
    IF overwrite_refused(files, PathOf(a), a.overwrite)
    THEN Outcome("FileAlreadyExists", files, dirs \cup {a.dir}, logs, engineRuns)
    ELSE IF a.fmt \notin SUPPORTED_VIDEO_FORMATS
    THEN Outcome("UnsupportedFormat", files, dirs, logs, engineRuns)
    ELSE IF a.fmt = "gif"
    THEN create_gif(a, PathOf(a), dirs \cup {a.dir})
    ELSE create_video_clip(a, PathOf(a), dirs \cup {a.dir})

\* Cutter.clip
clip(a) ==
    IF a.fmt \notin SUPPORTED_VIDEO_FORMATS
    THEN Outcome("UnsupportedFormat", files, dirs, logs, engineRuns)
    ELSE LET ds == dirs \cup {a.dir}
             output_path == PathOf(a)
         IN  IF overwrite_refused(files, output_path, a.overwrite)
             THEN Outcome("FileAlreadyExists", files, ds, logs, engineRuns)
             ELSE IF a.fmt = "gif"
             THEN create_gif(a, output_path, ds)
             ELSE create_video_clip(a, output_path, ds)

\* mutant: audio without its probe of the source
audio_unprobed(a) ==
    IF a.fmt \notin SUPPORTED_AUDIO_FORMATS
    THEN Outcome("UnsupportedFormat", files, dirs, logs, engineRuns)
    ELSE IF overwrite_refused(files, PathOf(a), a.overwrite)
    THEN Outcome("FileAlreadyExists", files, dirs \cup {a.dir}, logs, engineRuns)
    ELSE Persist(a, PathOf(a),
                 WriteFile(files, PathOf(a), Content("complete", a.src, "a")),
                 dirs \cup {a.dir}, engineRuns + 1)

\* mutant: the record appended whatever the exit code of the engine
create_audio_clip_always_logged(a, output_path, ds) ==
    IF a.env = "fail_early"
    THEN Outcome("FFmpegError", files, ds, logs, engineRuns + 1)
    ELSE Persist(a, output_path,
                 WriteFile(files, output_path,
                           Content(IF a.env = "fail_partial" THEN "partial"
                                   ELSE "complete", a.src, "a")),
                 ds, engineRuns + 1)

\* Cutter._create_audio_clip, then the rest of audio
create_audio_clip(a, output_path, ds) ==
    IF a.env = "fail_early"
    THEN Outcome("FFmpegError", files, ds, logs, engineRuns + 1)
    ELSE IF a.env = "fail_partial"
    THEN Outcome("FFmpegError",
                 WriteFile(files, output_path, Content("partial", a.src, "a")),
                 ds, logs, engineRuns + 1)
    ELSE Persist(a, output_path,
                 WriteFile(files, output_path, Content("complete", a.src, "a")),
                 ds, engineRuns + 1)

\* Cutter.audio
audio(a) ==
    IF a.fmt \notin SUPPORTED_AUDIO_FORMATS
    THEN Outcome("UnsupportedFormat", files, dirs, logs, engineRuns)
    ELSE LET ds == dirs \cup {a.dir}
             output_path == PathOf(a)
         IN  IF overwrite_refused(files, output_path, a.overwrite)
             THEN Outcome("FileAlreadyExists", files, ds, logs, engineRuns)
             ELSE IF ~probe_audio(a.src, a.env)
             THEN Outcome("NoAudioStream", files, ds, logs, engineRuns)
             ELSE create_audio_clip(a, output_path, ds)

(***************************************************************************)
(* The Manifest Store (ManifestManager, maker/shared.py) and the           *)
(* Downloader's resolve_source (maker/video/downloader.py).  A file of the *)
(* downloads directory is named by its path below that directory, a        *)
(* sequence of components.                                                 *)
(***************************************************************************)
\* the aliases a manifest is written under: two plain names and one that
\* holds a path separator
Aliases == {"alias1", "alias2", "x/y"}

\* the sources resolve_source is asked for: the aliases, a literal path that
\* is no alias, and a name that is neither
ResolveSources == Aliases \cup {"/tmp/video.mp4", "nowhere"}

\* the components of "downloads_dir / alias"
AliasParts(alias) == IF alias = "x/y" THEN <<"x", "y">> ELSE <<alias>>

\* downloads_dir / alias / "manifest.json"
ManifestPath(alias) == AliasParts(alias) \o <<"manifest.json">>

\* the paths outside the downloads directory that may exist: two downloaded
\* media files, a file of the working directory named like the first alias,
\* and the literal path
MediaPaths == {"m1", "m2", "alias1", "/tmp/video.mp4"}

\* the fields of the DownloadSpec dataclass
DownloadSpecFields ==
    {"source_url", "video_id", "alias", "downloaded_files", "yt_dlp_opts",
     "created_at", "title", "duration"}

\* the DownloadSpec values that are written
DownloadSpecs ==
    {[title |-> t, downloaded_files |-> f] :
        t \in {"t1", "t2"}, f \in {<<>>, <<"m1", "m2">>}} \ {[title |-> "t2", downloaded_files |-> <<>>]}

NoSpec == [title |-> "none", downloaded_files |-> <<>>]

\* json.dump(asdict(spec)): a JSON object with one key per field
Encode(spec) == [kind |-> "json", keys |-> DownloadSpecFields, data |-> spec]

\* what may lie in a downloads directory without having been written by
\* write_download_manifest: text that is no JSON, an object that lacks a
\* field of DownloadSpec, an object with a key DownloadSpec does not have
NotJson == [kind |-> "text", keys |-> {}, data |-> NoSpec]

MissingField(spec) ==
    [kind |-> "json", keys |-> DownloadSpecFields \ {"title"}, data |-> spec]

ExtraField(spec) ==
    [kind |-> "json", keys |-> DownloadSpecFields \cup {"extra"}, data |-> spec]

StoreOk(v) == [ok |-> TRUE, val |-> v, err |-> "none"]

StoreRaise(e) == [ok |-> FALSE, val |-> NoSpec, err |-> e]

\* json.load(f) followed by DownloadSpec(**data)
Decode(content) ==
    IF content.kind # "json" THEN StoreRaise("JSONDecodeError")
    ELSE IF content.keys # DownloadSpecFields THEN StoreRaise("TypeError")
    ELSE StoreOk(content.data)

\* ManifestManager.write_download_manifest: mkdir and open(path, "w")
write_download_manifest(alias, spec, store) ==
    WriteFile(store, ManifestPath(alias), Encode(spec))

\* ManifestManager.read_download_manifest
read_download_manifest(alias, store) ==
    IF ~Exists(store, ManifestPath(alias)) THEN StoreRaise("AliasNotFound")
    ELSE Decode(store[ManifestPath(alias)])

\* downloads_dir.glob("*/manifest.json")
GlobManifests(store) ==
    {p \in DOMAIN store : Len(p) = 2 /\ p[2] = "manifest.json"}

\* ManifestManager.list_downloads: every manifest found is loaded, and the
\* first one that does not load ends the call with its error
list_downloads(store) ==
    LET found == GlobManifests(store)
        bad == {p \in found : ~Decode(store[p]).ok}
    IN  IF bad # {}
        THEN [ok |-> FALSE, val |-> <<>>,
              err |-> Decode(store[CHOOSE p \in bad : TRUE]).err]
        ELSE [ok |-> TRUE, val |-> [n \in {p[1] : p \in found} |->
                                       Decode(store[<<n, "manifest.json">>]).val],
              err |-> "none"]

ResolveOk(path) == [ok |-> TRUE, path |-> path, err |-> "none"]

ResolveRaise(e) == [ok |-> FALSE, path |-> "none", err |-> e]

\* mutant: the first listed file returned without a look at the disk
validate_path_unchecked(spec, source, disk) ==
    IF spec.downloaded_files # <<>> THEN ResolveOk(spec.downloaded_files[1])
    ELSE ResolveRaise("NotFoundForAlias")

\* Downloader._validate_path: the first listed file that exists
validate_path(spec, source, disk) ==
    LET listed == spec.downloaded_files
        here == {i \in 1..Len(listed) : listed[i] \in disk}
    IN  IF here # {}
        THEN ResolveOk(listed[CHOOSE i \in here : \A j \in here : i <= j])
        ELSE ResolveRaise("NotFoundForAlias")

\* Downloader.resolve_source: "except Exception" catches the failed lookup
\* and NotFoundForAlias alike; the bare raise re-raises what was caught
resolve_source(source, store, disk) ==
    LET spec == read_download_manifest(source, store)
        tried == IF spec.ok THEN validate_path(spec.val, source, disk)
                 ELSE ResolveRaise(spec.err)
    IN  IF tried.ok THEN tried
        ELSE IF source \in disk THEN ResolveOk(source)
        ELSE tried

\* the keys of the projection returned by Downloader.get_info
InfoKeys ==
    {"title", "duration", "uploader", "view_count", "upload_date",
     "description", "thumbnail", "webpage_url"}

\* the slice bound of info.get("description", "")[:500]
DescriptionLimit == 500

Urls == {"https://youtu.be/abc"}

\* a str of n characters, and None
Text(n) == [kind |-> "str", text |-> [i \in 1..n |-> "d"]]

None == [kind |-> "None", text |-> <<>>]

DescriptionLengths == {3, DescriptionLimit, DescriptionLimit + 1}

\* what the extractor knows under each key of the projection
Extracted(key) ==
    CASE key = "title" -> "Some Title"
      [] key = "duration" -> 213
      [] key = "uploader" -> "Some Channel"
      [] key = "view_count" -> 1000
      [] key = "upload_date" -> "20240101"
      [] key = "thumbnail" -> "https://i.ytimg.com/abc.jpg"
      [] key = "webpage_url" -> "https://www.youtube.com/watch?v=abc"

\* the info dicts yt-dlp may hand back: any of the keys may be missing, and
\* the description may be None
InfoDicts ==
    UNION {{[k \in keys |-> IF k = "description" THEN d ELSE Extracted(k)] :
               d \in IF "description" \in keys
                     THEN {Text(n) : n \in DescriptionLengths} \cup {None}
                     ELSE {None}} :
           keys \in SUBSET InfoKeys}

NoInfo == [k \in {} |-> None]

\* the outcomes of ydl.extract_info: an exception, None, or an info dict
Extractions ==
    {[kind |-> "raise", msg |-> "ERROR: Video unavailable", info |-> NoInfo],
     [kind |-> "None", msg |-> "none", info |-> NoInfo]}
      \cup {[kind |-> "dict", msg |-> "none", info |-> i] : i \in InfoDicts}

InfoReturn(v) == [raised |-> FALSE, val |-> v]

InfoRaise(message) == [raised |-> TRUE, val |-> [error |-> message]]

\* dict.get(key, default)
Get(info, key, default) == IF key \in DOMAIN info THEN info[key] ELSE default

\* text[:n]
Slice(text, n) == SubSeq(text, 1, IF Len(text) < n THEN Len(text) ELSE n)

\* the try block of get_info: extract_info, then the dict display
get_info_try(url, extracted) ==
    IF extracted.kind = "raise" THEN InfoRaise(extracted.msg)
    ELSE IF extracted.kind = "None"
    THEN InfoRaise("'NoneType' object has no attribute 'get'")
    ELSE LET info == extracted.info
             description == Get(info, "description", Text(0))
         IN  IF description.kind = "None"
             THEN InfoRaise("'NoneType' object is not subscriptable")
             ELSE InfoReturn(
                    [title |-> Get(info, "title", "Unknown"),
                     duration |-> Get(info, "duration", 0),
                     uploader |-> Get(info, "uploader", "Unknown"),
                     view_count |-> Get(info, "view_count", 0),
                     upload_date |-> Get(info, "upload_date", "Unknown"),
                     description |->
                         [kind |-> "str",
                          text |-> Slice(description.text, DescriptionLimit)],
                     thumbnail |-> Get(info, "thumbnail", ""),
                     webpage_url |-> Get(info, "webpage_url", url)])

\* mutant: no except clause
get_info_uncaught(url, extracted) == get_info_try(url, extracted)

\* Downloader.get_info: "except Exception as e: return {"error": str(e)}"
get_info(url, extracted) ==
    LET tried == get_info_try(url, extracted)
    IN  IF tried.raised THEN InfoReturn(tried.val) ELSE tried

NoStoreCall == [op |-> "none", arg |-> "none", res |-> StoreRaise("none")]

(***************************************************************************)
(* The command handlers: what each returns, or lets through, for every     *)
(* outcome of the operations it calls                                      *)
(***************************************************************************)
\* the PaperSize enum: name -> (width, height)
PaperSize ==
    [A0 |-> <<2384, 3370>>, A1 |-> <<1684, 2384>>, A2 |-> <<1191, 1684>>,
     A3 |-> <<842, 1191>>, A4 |-> <<595, 842>>, A5 |-> <<420, 595>>,
     A6 |-> <<298, 420>>, A7 |-> <<210, 298>>, A8 |-> <<147, 210>>,
     A9 |-> <<105, 147>>, A10 |-> <<74, 105>>,
     B0 |-> <<2835, 4008>>, B1 |-> <<2004, 2835>>, B2 |-> <<1417, 2004>>,
     B3 |-> <<1001, 1417>>, B4 |-> <<709, 1001>>, B5 |-> <<499, 709>>,
     B6 |-> <<354, 499>>, B7 |-> <<249, 354>>, B8 |-> <<176, 249>>,
     B9 |-> <<125, 176>>, B10 |-> <<88, 125>>]

\* the --size texts tried, and str.upper on them
SizeTexts == {"A4", "b5", "letter"}

Upper(s) ==
    CASE s = "b5" -> "B5"
      [] s = "letter" -> "LETTER"
      [] OTHER -> s

\* PaperSize.from_string
from_string(size_str) ==
    IF Upper(size_str) \in DOMAIN PaperSize THEN "ok" ELSE "InvalidPaperSize"

CmdReturn(code) == [returned |-> TRUE, code |-> code, err |-> "none"]

\* the exception leaves the handler
CmdPropagates(e) == [returned |-> FALSE, code |-> 0, err |-> e]

\* what args.input names: a directory, a directory removed between
\* os.path.isdir and Path.is_dir, a pattern, a comma list, a file with or
\* without an image suffix, or nothing that exists
InputKinds ==
    {"directory", "directory_removed", "glob", "list", "image_file",
     "other_file", "missing"}

\* process_input: the number of images collected, or the error raised
process_input(kind, found) ==
    CASE kind \in {"directory", "glob", "list"} -> [ok |-> TRUE, n |-> found, err |-> "none"]
      [] kind = "directory_removed" -> [ok |-> FALSE, n |-> 0, err |-> "NotADirectory"]
      [] kind = "image_file" -> [ok |-> TRUE, n |-> 1, err |-> "none"]
      [] kind = "other_file" -> [ok |-> TRUE, n |-> 0, err |-> "none"]
      [] kind = "missing" -> [ok |-> FALSE, n |-> 0, err |-> "InvalidInput"]

PdfArgs ==
    [size : SizeTexts, input : InputKinds, found : {0, 2},
     image_errors : BOOLEAN, save : {"ok", "OSError"}]

\* cmd_pdf: only PaperSize.from_string is inside a try; create_pdf catches
\* the error of each image and goes on
cmd_pdf(a) ==
    IF from_string(a.size) # "ok" THEN CmdReturn(1)
    ELSE LET image_paths == process_input(a.input, a.found)
         IN  IF ~image_paths.ok THEN CmdPropagates(image_paths.err)
             ELSE IF image_paths.n = 0 THEN CmdReturn(1)
             ELSE IF a.save # "ok" THEN CmdPropagates(a.save)
             ELSE CmdReturn(0)

\* what becomes of args.font: one of the built-in families, a font that
\* register_font finds or downloads, one it does not find, one whose
\* download fails
FontOutcomes == {"builtin", "registered", "FontNotFound", "FontDownloadError"}

ResumeArgs ==
    [exists : BOOLEAN, suffix : {".json", ".yaml", ".txt"},
     load : {"ok", "invalid", "empty", "OSError"},
     validate : {"ok", "ValidationError"},
     font : FontOutcomes,
     generate : {"ok", "Exception"}]

\* ResumeGenerator._setup_font: any error of register_font gives Helvetica
setup_font(font) ==
    IF font = "builtin" THEN [raised |-> FALSE, family |-> "given"]
    ELSE IF font = "registered" THEN [raised |-> FALSE, family |-> "registered"]
    ELSE [raised |-> FALSE, family |-> "Helvetica"]

\* _load_resume_data: the parse errors are reported and give None, as an
\* empty YAML document does; an error of open() is not caught
load_resume_data(a) ==
    CASE a.load = "ok" -> [ok |-> TRUE, data |-> "data", err |-> "none"]
      [] a.load \in {"invalid", "empty"} -> [ok |-> TRUE, data |-> "None", err |-> "none"]
      [] a.load = "OSError" -> [ok |-> FALSE, data |-> "None", err |-> "OSError"]

cmd_resume(a) ==
    IF ~a.exists THEN CmdReturn(1)
    ELSE IF a.suffix \notin {".json", ".yaml", ".yml"} THEN CmdReturn(1)
    ELSE LET data == load_resume_data(a)
         IN  IF ~data.ok THEN CmdPropagates(data.err)
             ELSE IF data.data = "None" THEN CmdReturn(1)
             ELSE IF a.validate # "ok" THEN CmdReturn(1)
             ELSE IF setup_font(a.font).raised THEN CmdReturn(1)
             ELSE IF a.generate # "ok" THEN CmdReturn(1)
             ELSE CmdReturn(0)

DownloadArgs == [download : {"ok", "DownloadError"}, json : BOOLEAN]

cmd_yt_download(a) ==
    IF a.download # "ok" THEN CmdReturn(1) ELSE CmdReturn(0)

RangeOutcomes == {"ok", "InvalidTimeFormat", "TimeRange"}

ResolveOutcomes == {"ok", "AliasNotFound", "NotFoundForAlias"}

ClipOutcomes ==
    {"ok", "UnsupportedFormat", "FileAlreadyExists", "NoAudioStream",
     "FFmpegError", "ffmpeg.Error"}

AudioOutcomes ==
    {"ok", "UnsupportedFormat", "FileAlreadyExists", "NoAudioStream", "FFmpegError"}

CutArgs(outcomes) ==
    [range : RangeOutcomes, resolve : ResolveOutcomes, cut : outcomes, json : BOOLEAN]

\* the try block of cmd_yt_clip and of cmd_yt_audio: parse_range,
\* resolve_source, then the cut; the first error ends it
cut_try(a) ==
    IF a.range # "ok" THEN a.range
    ELSE IF a.resolve # "ok" THEN a.resolve
    ELSE a.cut

cmd_yt_clip(a) == IF cut_try(a) # "ok" THEN CmdReturn(1) ELSE CmdReturn(0)

cmd_yt_audio(a) == IF cut_try(a) # "ok" THEN CmdReturn(1) ELSE CmdReturn(0)

\* the metadata of a URL as get_info sees it: an error of the extractor,
\* None, a dict with every key, a dict with none
InfoExtractions ==
    {e \in Extractions :
        e.kind = "dict" => /\ DOMAIN e.info \in {InfoKeys, {}}
                           /\ "description" \in DOMAIN e.info
                                => e.info["description"] = Text(3)}

LocalOutcomes == {"ok", "ffmpeg.Error", "ZeroDivisionError"}

InfoArgs ==
    [is_url : {TRUE}, extracted : InfoExtractions, resolve : {"ok"},
     local : {"ok"}, json : BOOLEAN]
      \cup [is_url : {FALSE}, extracted : {CHOOSE e \in Extractions : e.kind = "None"},
            resolve : ResolveOutcomes, local : LocalOutcomes, json : BOOLEAN]

\* the try block of cmd_yt_info: get_info returns whatever happened; the
\* local branch raises
info_try(a) ==
    IF a.is_url
    THEN LET info == get_info("https://youtu.be/abc", a.extracted)
         IN  IF info.raised THEN "Exception" ELSE "ok"
    ELSE IF a.resolve # "ok" THEN a.resolve
    ELSE a.local

\* cmd_yt_info: after the try block the info dict is printed, whatever it
\* holds, and 0 is returned
cmd_yt_info(a) == IF info_try(a) # "ok" THEN CmdReturn(1) ELSE CmdReturn(0)

ListArgs == [list : {"ok", "JSONDecodeError", "TypeError"}, json : BOOLEAN]

cmd_yt_list(a) == IF a.list # "ok" THEN CmdReturn(1) ELSE CmdReturn(0)

\* the margin parameter's default, the only margin create_pdf uses
DefaultMargin == 36

\* mutant: the larger of the two ratios
max_ratio(a, b) == IF FloatLess(a, b) THEN b ELSE a

\* min(a, b) of two floats
min_ratio(a, b) == IF FloatLess(b, a) THEN b ELSE a

\* ImageProcessor.calculate_fit_size
calculate_fit_size(img_width, img_height, page_width, page_height, margin) ==
    LET usable_width == page_width - 2 * margin
        usable_height == page_height - 2 * margin
        width_ratio == TrueDiv(usable_width, img_width)
        height_ratio == TrueDiv(usable_height, img_height)
        scale_factor == min_ratio(width_ratio, height_ratio)
        scaled_width == IntTimesFloat(img_width, scale_factor)
        scaled_height == IntTimesFloat(img_height, scale_factor)
    IN  [x |-> Halved(IntPlusFloat(page_width, Negated(scaled_width))),
         y |-> Halved(IntPlusFloat(page_height, Negated(scaled_height))),
         scaled_width |-> scaled_width,
         scaled_height |-> scaled_height]

NoCmdCall == [cmd |-> "none", args |-> "none", res |-> CmdReturn(0)]

NoFitCall ==
    [op |-> "none", img_width |-> 1, img_height |-> 1, size |-> "A4",
     out |-> [x |-> Zero, y |-> Zero, scaled_width |-> Zero, scaled_height |-> Zero]]

(***************************************************************************)
(* clip and audio statement by statement: an invocation is at a position   *)
(* in the list of its statements, and the output directory is shared with  *)
(* a second invocation that runs at the same time                          *)
(***************************************************************************)
Invocations == {"p1", "p2"}

\* mutant: the hash and the timestamp taken once the engine has run
clip_statements_hash_last(fmt) ==
    IF fmt = "gif"
    THEN <<"format", "mkdir", "overwrite", "palettegen", "paletteuse", "hash",
           "append">>
    ELSE <<"format", "mkdir", "overwrite", "probe", "probe_codec", "engine",
           "hash", "append">>

\* the statements of Cutter.clip in the order of the source; the palette
\* pipeline for gif, the probes and the transcode of _create_video_clip
\* otherwise
clip_statements(fmt) ==
    IF fmt = "gif"
    THEN <<"format", "mkdir", "overwrite", "hash", "palettegen", "paletteuse",
           "append">>
    ELSE <<"format", "mkdir", "overwrite", "hash", "probe", "probe_codec",
           "engine", "append">>

\* the statements of Cutter.audio in the order of the source
audio_statements ==
    <<"format", "mkdir", "overwrite", "probe", "hash", "engine", "append">>

Statements(op, fmt) ==
    IF op = "clip" THEN clip_statements(fmt) ELSE audio_statements

\* the formats tried statement by statement: a video format, gif, an audio
\* format
StepFormats == {"mp4", "gif", "m4a"}

StepArgs ==
    {[src |-> s, start |-> t[1], end |-> t[2], fmt |-> f, dir |-> d,
      overwrite |-> ow, allow_no_audio |-> an, env |-> e] :
        s \in Sources, t \in TimePairs, f \in StepFormats, d \in Dirs,
        ow \in BOOLEAN, an \in BOOLEAN, e \in EngineBehaviours}

Idle ==
    [pc |-> 0, op |-> "none", args |-> CHOOSE a \in StepArgs : TRUE,
     done |-> <<>>, res |-> "none"]

NewDirectory == [files |-> EmptyFiles, dirs |-> {}, logs |-> [d \in Dirs |-> <<>>]]

\* what a statement does: it goes on to the next one or raises, and leaves
\* the directory in a new state
GoOn(sh) == [res |-> "none", shared |-> sh]

RaiseIn(e, sh) == [res |-> e, shared |-> sh]

\* mutant: the existence check and the write under one lock, the second
\* invocation refused while the first holds the output path
locked_check(sh, output_path, overwrite, others) ==
    \/ overwrite_refused(sh.files, output_path, overwrite)
    \/ \E q \in DOMAIN others :
          /\ others[q].op # "none" /\ others[q].res = "none"
          /\ others[q].pc > 3

\* "if output_path.exists() and not overwrite": a look at the disk and
\* nothing else
unlocked_check(sh, output_path, overwrite, others) ==
    overwrite_refused(sh.files, output_path, overwrite)

\* one statement of clip or audio run by an invocation with arguments a
Statement(stmt, op, a, sh, others) ==
    LET output_path == PathOf(a)
        palette_path == with_suffix(output_path, "png")
        streams == IF op = "audio" THEN "a"
                   ELSE IF a.fmt # "gif" /\ probe_audio(a.src, a.env) THEN "av"
                   ELSE "v"
        written(st) == WriteFile(sh.files, output_path, Content(st, a.src, streams))
        supported == IF op = "clip" THEN SUPPORTED_VIDEO_FORMATS
                     ELSE SUPPORTED_AUDIO_FORMATS
    IN  CASE stmt = "format" ->
               IF a.fmt \notin supported THEN RaiseIn("UnsupportedFormat", sh)
               ELSE GoOn(sh)
          [] stmt = "mkdir" -> GoOn([sh EXCEPT !.dirs = @ \cup {a.dir}])
          [] stmt = "overwrite" ->
               IF unlocked_check(sh, output_path, a.overwrite, others)
               THEN RaiseIn("FileAlreadyExists", sh)
               ELSE GoOn(sh)
          [] stmt = "hash" -> GoOn(sh)
          [] stmt = "probe" ->
               IF ~probe_audio(a.src, a.env) /\ (op = "audio" \/ ~a.allow_no_audio)
               THEN RaiseIn("NoAudioStream", sh)
               ELSE GoOn(sh)
          [] stmt = "probe_codec" ->
               IF a.env = "probe_error" THEN RaiseIn("ffmpeg.Error", sh)
               ELSE GoOn(sh)
          [] stmt = "engine" ->
               IF a.env = "fail_early" THEN RaiseIn("FFmpegError", sh)
               ELSE IF a.env = "fail_partial"
               THEN RaiseIn("FFmpegError", [sh EXCEPT !.files = written("partial")])
               ELSE GoOn([sh EXCEPT !.files = written("complete")])
          [] stmt = "palettegen" ->
               IF a.env = "fail_early"
               THEN RaiseIn("FFmpegError",
                            [sh EXCEPT !.files = Unlink(sh.files, palette_path)])
               ELSE GoOn([sh EXCEPT !.files =
                            WriteFile(sh.files, palette_path,
                                      Content("complete", a.src, "palette"))])
          [] stmt = "paletteuse" ->
               IF a.env = "fail_partial"
               THEN RaiseIn("FFmpegError",
                            [sh EXCEPT !.files = Unlink(written("partial"), palette_path)])
               ELSE GoOn([sh EXCEPT !.files = Unlink(written("complete"), palette_path)])
          [] stmt = "append" ->
               GoOn([sh EXCEPT !.logs[a.dir] =
                       append_artifact_record(ArtifactSpec(output_path, a), @)])

(***************************************************************************)
(* The Downloader: the progress notifications of the download engine and   *)
(* the manifest written at the end                                         *)
(***************************************************************************)
\* the downloads one instance makes
MaxDownloads == 2

\* the notifications the engine sends during one download
MaxNotifications == 3

\* the paths the engine reports, character by character: one with a suffix
\* and one without
MediaFile1 == <<"f", "1", ".", "mp4">>

MediaFile2 == <<"f", "2">>

\* Path(filepath).suffix: from the last dot on, empty without a dot
suffix(filepath) ==
    LET dots == {i \in 2..Len(filepath) : filepath[i] = "."}
    IN  IF dots = {} THEN <<>>
        ELSE SubSeq(filepath, CHOOSE i \in dots : \A j \in dots : j <= i,
                    Len(filepath))

\* str.lstrip(".")
RECURSIVE lstrip_dot(_)
lstrip_dot(s) ==
    IF s # <<>> /\ Head(s) = "." THEN lstrip_dot(Tail(s)) ELSE s

\* the dictionaries the engine passes to the hook; a key that is absent, None
\* or empty is written <<>> for a path and 0 for a size, which is what
\* "d.get(key) or default" makes of all three
Notifications ==
    {[status |-> "downloading", filename |-> MediaFile1, filepath |-> <<>>,
      total_bytes |-> 10],
     [status |-> "finished", filename |-> MediaFile1, filepath |-> <<>>,
      total_bytes |-> 10],
     [status |-> "finished", filename |-> MediaFile1, filepath |-> MediaFile2,
      total_bytes |-> 0],
     [status |-> "finished", filename |-> <<>>, filepath |-> MediaFile2,
      total_bytes |-> 20],
     [status |-> "finished", filename |-> <<>>, filepath |-> <<>>,
      total_bytes |-> 10]}

\* d.get("filename") or d.get("filepath")
reported_path(d) == IF d.filename # <<>> THEN d.filename ELSE d.filepath

\* mutant: a record appended for every finished notification with a path
progress_hook_every(downloaded_files, d) ==
    IF d.status = "finished" /\ reported_path(d) # <<>>
    THEN Append(downloaded_files,
                [path |-> reported_path(d),
                 ext |-> lstrip_dot(suffix(reported_path(d))),
                 filesize |-> d.total_bytes])
    ELSE downloaded_files

\* Downloader._progress_hook: the new value of self._downloaded_files
progress_hook(downloaded_files, d) ==
    IF d.status = "downloading" THEN downloaded_files
    ELSE IF d.status = "finished"
    THEN LET filepath == reported_path(d)
         IN  IF filepath = <<>> THEN downloaded_files
             ELSE IF \E i \in DOMAIN downloaded_files :
                        downloaded_files[i].path = filepath
             THEN downloaded_files
             ELSE Append(downloaded_files,
                         [path |-> filepath,
                          ext |-> lstrip_dot(suffix(filepath)),
                          filesize |-> d.total_bytes])
    ELSE downloaded_files

\* the alias argument: given, or None
NoAlias == "None"

DownloadAliases == {"alias1", NoAlias}

\* what extract_info returns: a dictionary with an id, or one without
InfoWithId == [k \in {"id", "title"} |-> IF k = "id" THEN "id1" ELSE "t1"]

InfoWithoutId == [k \in {"title"} |-> "t1"]

DownloadInfos == {InfoWithId, InfoWithoutId}

\* info.get("id", "unknown")
video_id_of(info) == IF "id" \in DOMAIN info THEN info["id"] ELSE "unknown"

\* mutant: the list of the instance kept from one download to the next
kept_list(downloaded_files) == downloaded_files

\* "self._downloaded_files = []"
fresh_list(downloaded_files) == <<>>

\* the DownloadSpec that download builds
BuildDownloadSpec(alias, video_id, info, downloaded_files) ==
    [title |-> info["title"], video_id |-> video_id, alias |-> alias,
     downloaded_files |-> downloaded_files]

NewDownloader ==
    [phase |-> "idle", files |-> <<>>, heard |-> <<>>, n |-> 0,
     alias |-> NoAlias, info |-> InfoWithoutId, res |-> "none"]

\* the alias the manifest is written under
EffectiveAlias(d) == IF d.alias = NoAlias THEN video_id_of(d.info) ELSE d.alias

(***************************************************************************)
(* The output path as a function of the request                            *)
(***************************************************************************)
\* the sources of the requests compared: two files with the stem "v" and one
\* with the stem "w"
PathSources == Sources \cup {"a/w.mp4"}

\* a float that is a whole number of seconds, and the next value of
\* TimeValues after it, less than a millisecond later
JustAfter(n) == TrueDiv(n * 1000 * SubSteps + 1, 1000 * SubSteps)

\* the start and end values of the requests compared
PathStarts == {Sec(1), JustAfter(1), Sec(23)}

PathEnds == {Sec(23), JustAfter(23), Sec(59)}

PathRequests ==
    [src : PathSources, start : PathStarts, end : PathEnds, fmt : {"mp4", "gif"}]

\* the output path of every request into the directory of the clips
PathTable ==
    [r \in PathRequests |->
        get_output_path(r.src, r.start, r.end, r.fmt, "clips")]

NoPathCall ==
    [op |-> "none", r1 |-> CHOOSE r \in PathRequests : TRUE,
     r2 |-> CHOOSE r \in PathRequests : TRUE, p1 |-> <<>>, p2 |-> <<>>]

(***************************************************************************)
(* Construction of a Cutter: where the engine binary is looked for         *)
(***************************************************************************)
\* the ffmpeg_bin argument: None, the empty string, a path
BinArguments == {"None", "", "/opt/ffmpeg"}

\* what "import imageio_ffmpeg; imageio_ffmpeg.get_ffmpeg_exe()" does: it
\* returns a path, the package is not installed, or the package is installed
\* and finds no binary for the platform
BundledOutcomes == {"found", "ImportError", "RuntimeError"}

\* the arguments of the constructor and the environment it runs in
EnsureArgs ==
    [ffmpeg_bin : BinArguments, exists : BOOLEAN, executable : BOOLEAN,
     bundled : BundledOutcomes, on_path : BOOLEAN,
     verbose : BOOLEAN, overwrite : BOOLEAN]

Ensured(located) == [res |-> "ok", located |-> located]

EnsureRaises(e) == [res |-> e, located |-> "none"]

\* Cutter._ensure_ffmpeg
ensure_ffmpeg(a) ==
    IF a.ffmpeg_bin \notin {"None", ""}
    THEN IF ~a.exists THEN EnsureRaises("FFmpegNotFound")
         ELSE IF a.executable THEN Ensured("explicit")
         ELSE Ensured("none")
    ELSE IF a.bundled = "found" THEN Ensured("bundled")
    ELSE IF a.bundled = "ImportError"
    THEN IF a.on_path THEN Ensured("environment")
         ELSE EnsureRaises("FFmpegNotFound")
    ELSE EnsureRaises(a.bundled)

NoEnsureCall ==
    [op |-> "none", args |-> CHOOSE a \in EnsureArgs : TRUE,
     out |-> EnsureRaises("none")]

(***************************************************************************)
(* Specification of the Cutter: a sequence of clip and audio invocations   *)
(***************************************************************************)
ClipArgs ==
    {[src |-> s, start |-> t[1], end |-> t[2], fmt |-> f, dir |-> d,
      overwrite |-> ow, allow_no_audio |-> an, env |-> e] :
        s \in Sources, t \in TimePairs, f \in Formats, d \in ClipDirs,
        ow \in BOOLEAN, an \in BOOLEAN, e \in EngineBehaviours \cup {"not_run"}}

\* audio has no allow_no_audio argument
AudioArgs ==
    {[src |-> s, start |-> t[1], end |-> t[2], fmt |-> f, dir |-> d,
      overwrite |-> ow, allow_no_audio |-> FALSE, env |-> e] :
        s \in Sources, t \in TimePairs, f \in Formats, d \in AudioDirs,
        ow \in BOOLEAN, e \in EngineBehaviours \cup {"not_run"}}

NoCall == [op |-> "none", res |-> "none"]

NoTimeCall ==
    [op |-> "none", a |-> <<>>, b |-> <<>>, q |-> [num |-> 0, den |-> 1000],
     x |-> Zero, out |-> Raise("none"), str |-> <<>>, rng |-> RangeRaise("none")]

\* the arguments that identify a request (all but overwrite and the engine)
Request(op, a) ==
    [op |-> op, src |-> a.src, start |-> a.start, end |-> a.end, fmt |-> a.fmt,
     dir |-> a.dir, allow_no_audio |-> a.allow_no_audio]

Init ==
    /\ files = EmptyFiles
    /\ dirs = {}
    /\ logs = [d \in Dirs |-> <<>>]
    /\ engineRuns = 0
    /\ okCount = [d \in Dirs |-> 0]
    /\ done = {}
    /\ nCalls = 0
    /\ last = NoCall
    /\ timeCall = NoTimeCall
    /\ manifests = EmptyFiles
    /\ media = {}
    /\ lastWritten = [a \in Aliases |-> NoSpec]
    /\ nWrites = 0
    /\ storeCall = NoStoreCall
    /\ cmdCall = NoCmdCall
    /\ fitCall = NoFitCall
    /\ proc = [p \in Invocations |-> Idle]
    /\ shared = NewDirectory
    /\ dl = NewDownloader
    /\ dlStore = EmptyFiles
    /\ pathCall = NoPathCall
    /\ ensureCall = NoEnsureCall

Invoke(op, a, o) ==
    /\ files' = o.files
    /\ dirs' = o.dirs
    /\ logs' = o.logs
    /\ engineRuns' = o.runs
    /\ okCount' = IF o.res = "ok" THEN [okCount EXCEPT ![a.dir] = @ + 1] ELSE okCount
    /\ done' = IF o.res = "ok" THEN done \cup {Request(op, a)} ELSE done
    /\ nCalls' = nCalls + 1
    /\ last' = [op |-> op, args |-> a, res |-> o.res]
    /\ UNCHANGED <<timeCall, storeVars, cmdCall, fitCall, extraVars>>

\* a call rejected by the format or overwrite check never consults the
\* engine: its behaviour is drawn only for the calls that reach it
Rejected(o) == o.res \in {"UnsupportedFormat", "FileAlreadyExists"}

ClipCall ==
    /\ nCalls < MaxCalls
    /\ \E a \in ClipArgs :
         LET o == clip(a)
         IN  /\ (a.env = "not_run") = Rejected(o)
             /\ Invoke("clip", a, o)

AudioCall ==
    /\ nCalls < MaxCalls
    /\ \E a \in AudioArgs :
         LET o == audio(a)
         IN  /\ (a.env = "not_run") = Rejected(o)
             /\ Invoke("audio", a, o)

Next == ClipCall \/ AudioCall

Spec == Init /\ [][Next]_vars

(***************************************************************************)
(* Specification of the time functions: each step applies one of them to   *)
(* an input drawn from the bounded sets above                              *)
(***************************************************************************)
CallParseTime ==
    /\ timeCall.op = "none"
    /\ \E s \in TimeTexts :
         timeCall' = [NoTimeCall EXCEPT !.op = "parse_time", !.a = s,
                                        !.out = parse_time(s)]
    /\ UNCHANGED <<cutterVars, storeVars, cmdCall, fitCall, extraVars>>

CallFormatTime ==
    /\ timeCall.op = "none"
    /\ \E q \in TimeValues :
         LET x == TrueDiv(q.num, q.den)
         IN  timeCall' = [NoTimeCall EXCEPT !.op = "format_time", !.q = q, !.x = x,
                                            !.str = format_time(x)]
    /\ UNCHANGED <<cutterVars, storeVars, cmdCall, fitCall, extraVars>>

CallParseRange ==
    /\ timeCall.op = "none"
    /\ \E s \in RangeTexts, e \in RangeTexts :
         timeCall' = [NoTimeCall EXCEPT !.op = "parse_range", !.a = s, !.b = e,
                                        !.rng = parse_range(s, e)]
    /\ UNCHANGED <<cutterVars, storeVars, cmdCall, fitCall, extraVars>>

NextTime == CallParseTime \/ CallFormatTime \/ CallParseRange

SpecTime == Init /\ [][NextTime]_vars

(***************************************************************************)
(* Specification of the Manifest Store: the environment decides which      *)
(* paths exist and may put a file of its own into the downloads directory; *)
(* manifests are written, then the store is queried                        *)
(***************************************************************************)
\* the files the environment may put into the downloads directory: a stray
\* file next to no manifest, and a manifest.json that does not load
ForeignFiles ==
    {[path |-> <<"alias3", "not-a-manifest.json">>, content |-> MissingField(NoSpec)]}
      \cup {[path |-> ManifestPath("alias2"), content |-> c] :
                c \in {NotJson, MissingField(NoSpec), ExtraField(NoSpec)}}

Foreign(store) == {f \in ForeignFiles : Exists(store, f.path) /\ store[f.path] = f.content}

Building == storeCall.op \in {"none", "disk", "foreign", "write"}

DiskChange ==
    /\ storeCall.op = "none"
    /\ \E d \in (SUBSET MediaPaths) \ {{}} :
         /\ media' = d
         /\ storeCall' = [NoStoreCall EXCEPT !.op = "disk"]
    /\ UNCHANGED <<manifests, lastWritten, nWrites, cutterVars, timeCall, cmdCall, fitCall, extraVars>>

ForeignWrite ==
    /\ Building
    /\ Foreign(manifests) = {}
    /\ \E f \in ForeignFiles :
         /\ manifests' = WriteFile(manifests, f.path, f.content)
         /\ storeCall' = [NoStoreCall EXCEPT !.op = "foreign"]
    /\ UNCHANGED <<media, lastWritten, nWrites, cutterVars, timeCall, cmdCall, fitCall, extraVars>>

WriteManifest ==
    /\ Building
    /\ nWrites < MaxWrites
    /\ \E alias \in Aliases, spec \in DownloadSpecs :
         /\ manifests' = write_download_manifest(alias, spec, manifests)
         /\ lastWritten' = [lastWritten EXCEPT ![alias] = spec]
         /\ storeCall' = [NoStoreCall EXCEPT !.op = "write", !.arg = alias]
    /\ nWrites' = nWrites + 1
    /\ UNCHANGED <<media, cutterVars, timeCall, cmdCall, fitCall, extraVars>>

ListDownloads ==
    /\ Building
    /\ storeCall' = [op |-> "list", arg |-> "none", res |-> list_downloads(manifests)]
    /\ UNCHANGED <<manifests, media, lastWritten, nWrites, cutterVars, timeCall, cmdCall, fitCall, extraVars>>

ReadManifest ==
    /\ Building
    /\ \E alias \in ResolveSources :
         storeCall' = [op |-> "read", arg |-> alias,
                       res |-> read_download_manifest(alias, manifests)]
    /\ UNCHANGED <<manifests, media, lastWritten, nWrites, cutterVars, timeCall, cmdCall, fitCall, extraVars>>

ResolveSource ==
    /\ Building
    /\ \E source \in ResolveSources :
         storeCall' = [op |-> "resolve", arg |-> source,
                       res |-> resolve_source(source, manifests, media)]
    /\ UNCHANGED <<manifests, media, lastWritten, nWrites, cutterVars, timeCall, cmdCall, fitCall, extraVars>>

\* get_info reads neither the downloads directory nor the disk
GetInfo ==
    /\ storeCall.op = "none"
    /\ \E url \in Urls, extracted \in Extractions :
         storeCall' = [op |-> "get_info",
                       arg |-> [url |-> url, extracted |-> extracted],
                       res |-> get_info(url, extracted)]
    /\ UNCHANGED <<manifests, media, lastWritten, nWrites, cutterVars, timeCall, cmdCall, fitCall, extraVars>>

NextStore ==
    \/ DiskChange \/ ForeignWrite \/ WriteManifest
    \/ ListDownloads \/ ReadManifest \/ ResolveSource \/ GetInfo

SpecStore == Init /\ [][NextStore]_vars

(***************************************************************************)
(* Specification of the Cutter called directly: one call of clip or audio  *)
(* on a new Cutter, with the times as the caller passes them               *)
(***************************************************************************)
DirectClipArgs ==
    {[src |-> s, start |-> t[1], end |-> t[2], fmt |-> f, dir |-> d,
      overwrite |-> ow, allow_no_audio |-> an, env |-> e] :
        s \in Sources, t \in DirectTimePairs, f \in Formats, d \in ClipDirs,
        ow \in BOOLEAN, an \in BOOLEAN, e \in EngineBehaviours \cup {"not_run"}}

DirectAudioArgs ==
    {[src |-> s, start |-> t[1], end |-> t[2], fmt |-> f, dir |-> d,
      overwrite |-> ow, allow_no_audio |-> FALSE, env |-> e] :
        s \in Sources, t \in DirectTimePairs, f \in Formats, d \in AudioDirs,
        ow \in BOOLEAN, e \in EngineBehaviours \cup {"not_run"}}

DirectClip ==
    /\ nCalls = 0
    /\ \E a \in DirectClipArgs :
         LET o == clip(a)
         IN  /\ (a.env = "not_run") = Rejected(o)
             /\ Invoke("clip", a, o)

DirectAudio ==
    /\ nCalls = 0
    /\ \E a \in DirectAudioArgs :
         LET o == audio(a)
         IN  /\ (a.env = "not_run") = Rejected(o)
             /\ Invoke("audio", a, o)

NextDirect == DirectClip \/ DirectAudio

SpecDirect == Init /\ [][NextDirect]_vars

(***************************************************************************)
(* Specification of the command line: one handler runs                     *)
(***************************************************************************)
Handle(cmd, a, res) ==
    /\ cmdCall.cmd = "none"
    /\ cmdCall' = [cmd |-> cmd, args |-> a, res |-> res]
    /\ UNCHANGED <<cutterVars, storeVars, timeCall, fitCall, extraVars>>

CmdPdf == \E a \in PdfArgs : Handle("pdf", a, cmd_pdf(a))

CmdResume == \E a \in ResumeArgs : Handle("resume", a, cmd_resume(a))

CmdYtDownload == \E a \in DownloadArgs : Handle("yt download", a, cmd_yt_download(a))

CmdYtClip == \E a \in CutArgs(ClipOutcomes) : Handle("yt clip", a, cmd_yt_clip(a))

CmdYtAudio == \E a \in CutArgs(AudioOutcomes) : Handle("yt audio", a, cmd_yt_audio(a))

CmdYtInfo == \E a \in InfoArgs : Handle("yt info", a, cmd_yt_info(a))

CmdYtList == \E a \in ListArgs : Handle("yt list", a, cmd_yt_list(a))

NextCmd ==
    \/ CmdPdf \/ CmdResume \/ CmdYtDownload \/ CmdYtClip \/ CmdYtAudio
    \/ CmdYtInfo \/ CmdYtList

SpecCmd == Init /\ [][NextCmd]_vars

(***************************************************************************)
(* Specification of the fit-to-page computation: one image is placed on a  *)
(* page of one of the paper sizes                                          *)
(***************************************************************************)
\* image sides in pixels: the small ones, and those of the images tried
MaxSide == 6

ImageSides == 1..MaxSide \cup {47, 1000, 2000}

CallFitSize ==
    /\ fitCall.op = "none"
    /\ \E w \in ImageSides, h \in ImageSides, size \in DOMAIN PaperSize :
         fitCall' = [op |-> "calculate_fit_size", img_width |-> w,
                     img_height |-> h, size |-> size,
                     out |-> calculate_fit_size(w, h, PaperSize[size][1],
                                                PaperSize[size][2], DefaultMargin)]
    /\ UNCHANGED <<cutterVars, storeVars, timeCall, cmdCall, extraVars>>

NextFit == CallFitSize

SpecFit == Init /\ [][NextFit]_vars

(***************************************************************************)
(* Specification of two invocations with the same arguments, each a        *)
(* process of its own, run statement by statement in any interleaving      *)
(***************************************************************************)
\* the first invocation starts, with any arguments
Begin ==
    /\ proc["p1"].op = "none"
    /\ \E op \in {"clip", "audio"}, a \in StepArgs :
         /\ a.dir \in (IF op = "clip" THEN ClipDirs ELSE AudioDirs)
         /\ op = "audio" => ~a.allow_no_audio
         /\ proc' = [proc EXCEPT !["p1"] = [Idle EXCEPT !.op = op, !.args = a, !.pc = 1]]
    /\ UNCHANGED <<shared, cutterVars, storeVars, timeCall, cmdCall, fitCall>>
    /\ UNCHANGED <<dlVars, pathCall, ensureCall>>

\* a second process starts the same invocation, at any time after the first
BeginSecond ==
    /\ proc["p1"].op # "none"
    /\ proc["p2"].op = "none"
    /\ proc' = [proc EXCEPT !["p2"] = [Idle EXCEPT !.op = proc["p1"].op,
                                                   !.args = proc["p1"].args,
                                                   !.pc = 1]]
    /\ UNCHANGED <<shared, cutterVars, storeVars, timeCall, cmdCall, fitCall>>
    /\ UNCHANGED <<dlVars, pathCall, ensureCall>>

\* an invocation runs its next statement
Step(p) ==
    LET l == proc[p]
        stmts == Statements(l.op, l.args.fmt)
    IN  /\ l.op # "none"
        /\ l.res = "none"
        /\ \E o \in {Statement(stmts[l.pc], l.op, l.args, shared,
                                [q \in Invocations \ {p} |-> proc[q]])} :
           LET finished == o.res = "none" /\ l.pc = Len(stmts)
           IN  /\ shared' = o.shared
               /\ proc' = [proc EXCEPT ![p] =
                             [l EXCEPT !.done = Append(@, stmts[l.pc]),
                                       !.pc = IF o.res = "none" /\ ~finished
                                              THEN l.pc + 1 ELSE l.pc,
                                       !.res = IF finished THEN "ok" ELSE o.res]]
        /\ UNCHANGED <<cutterVars, storeVars, timeCall, cmdCall, fitCall>>
        /\ UNCHANGED <<dlVars, pathCall, ensureCall>>

StepAny == \E p \in Invocations : Step(p)

NextSteps == Begin \/ BeginSecond \/ StepAny

SpecSteps == Init /\ [][NextSteps]_vars

(***************************************************************************)
(* Specification of one call into a directory that is not empty: another   *)
(* program has put a file there, at the output path of the call or beside  *)
(* it; the engine's behaviour is given whether or not the call reaches it  *)
(***************************************************************************)
\* a file that is not the output of any run
ForeignContent == Content("foreign", "none", "none")

\* where the file may lie: an output path, or the same name with the suffix
\* png
PlacedPaths ==
    {PathOf(a) : a \in StepArgs} \cup {with_suffix(PathOf(a), "png") : a \in StepArgs}

PlaceFile ==
    /\ nCalls = 0
    /\ files = EmptyFiles
    /\ \E path \in PlacedPaths : files' = WriteFile(files, path, ForeignContent)
    /\ UNCHANGED <<dirs, logs, engineRuns, okCount, done, nCalls, last>>
    /\ UNCHANGED <<timeCall, storeVars, cmdCall, fitCall, extraVars>>

PlacedClip ==
    /\ nCalls = 0
    /\ \E a \in StepArgs :
         /\ a.dir \in ClipDirs
         /\ Invoke("clip", a, clip(a))

PlacedAudio ==
    /\ nCalls = 0
    /\ \E a \in StepArgs :
         /\ a.dir \in AudioDirs
         /\ ~a.allow_no_audio
         /\ Invoke("audio", a, audio(a))

NextPlaced == PlaceFile \/ PlacedClip \/ PlacedAudio

SpecPlaced == Init /\ [][NextPlaced]_vars

(***************************************************************************)
(* Specification of the Downloader: one instance makes downloads one after *)
(* the other; the engine sends any notifications and returns or raises     *)
(***************************************************************************)
\* download is called
DownloadCall ==
    /\ dl.phase \in {"idle", "returned", "raised"}
    /\ dl.n < MaxDownloads
    /\ \E alias \in DownloadAliases :
         dl' = [dl EXCEPT !.phase = "extract", !.alias = alias, !.n = @ + 1,
                          !.res = "none"]
    /\ UNCHANGED <<dlStore, cutterVars, storeVars, timeCall, cmdCall, fitCall,
                   stepVars, pathCall, ensureCall>>

\* extract_info returns, and download goes on to the "with" block
ExtractReturns ==
    /\ dl.phase = "extract"
    /\ \E info \in DownloadInfos :
         dl' = [dl EXCEPT !.phase = "downloading", !.info = info,
                          !.files = fresh_list(@)]
    /\ UNCHANGED <<dlStore, cutterVars, storeVars, timeCall, cmdCall, fitCall,
                   stepVars, pathCall, ensureCall>>

\* extract_info raises
ExtractRaises ==
    /\ dl.phase = "extract"
    /\ dl' = [dl EXCEPT !.phase = "raised", !.res = "DownloadError"]
    /\ UNCHANGED <<dlStore, cutterVars, storeVars, timeCall, cmdCall, fitCall,
                   stepVars, pathCall, ensureCall>>

\* the engine calls the progress hook
Notify ==
    /\ dl.phase = "downloading"
    /\ Len(dl.heard) < MaxNotifications
    /\ \E d \in Notifications :
         dl' = [dl EXCEPT !.files = progress_hook(@, d),
                          !.heard = Append(@, d)]
    /\ UNCHANGED <<dlStore, cutterVars, storeVars, timeCall, cmdCall, fitCall,
                   stepVars, pathCall, ensureCall>>

\* ydl.download returns: the spec is built and the manifest written
DownloadReturns ==
    /\ dl.phase = "downloading"
    /\ dlStore' = write_download_manifest(
                      EffectiveAlias(dl),
                      BuildDownloadSpec(EffectiveAlias(dl), video_id_of(dl.info),
                                        dl.info, dl.files),
                      dlStore)
    /\ dl' = [dl EXCEPT !.phase = "returned", !.res = "ok", !.heard = <<>>]
    /\ UNCHANGED <<cutterVars, storeVars, timeCall, cmdCall, fitCall,
                   stepVars, pathCall, ensureCall>>

\* ydl.download raises
DownloadRaises ==
    /\ dl.phase = "downloading"
    /\ dl' = [dl EXCEPT !.phase = "raised", !.res = "DownloadError",
                        !.heard = <<>>]
    /\ UNCHANGED <<dlStore, cutterVars, storeVars, timeCall, cmdCall, fitCall,
                   stepVars, pathCall, ensureCall>>

NextDownload ==
    \/ DownloadCall
    \/ ExtractReturns
    \/ ExtractRaises
    \/ Notify
    \/ DownloadReturns
    \/ DownloadRaises

SpecDownload == Init /\ [][NextDownload]_vars

(***************************************************************************)
(* Specification of the construction of a Cutter                           *)
(***************************************************************************)
Construct ==
    /\ ensureCall.op = "none"
    /\ \E a \in EnsureArgs :
         /\ ~a.exists => ~a.executable
         /\ ensureCall' = [op |-> "Cutter", args |-> a, out |-> ensure_ffmpeg(a)]
    /\ UNCHANGED <<cutterVars, storeVars, timeCall, cmdCall, fitCall, stepVars,
                   dlVars, pathCall>>

NextEnsure == Construct

SpecEnsure == Init /\ [][NextEnsure]_vars

(***************************************************************************)
(* Specification of the output path: it is computed for two requests into  *)
(* the same directory                                                      *)
(***************************************************************************)
ComputePaths ==
    /\ pathCall.op = "none"
    /\ \E r1, r2 \in PathRequests :
         pathCall' = [op |-> "_get_output_path", r1 |-> r1, r2 |-> r2,
                      p1 |-> PathTable[r1], p2 |-> PathTable[r2]]
    /\ UNCHANGED <<cutterVars, storeVars, timeCall, cmdCall, fitCall, stepVars,
                   dlVars, ensureCall>>

NextPath == ComputePaths

SpecPath == Init /\ [][NextPath]_vars

(***************************************************************************)
(* Properties of the Cutter                                                *)
(***************************************************************************)
IsPrefix(s, t) == Len(s) <= Len(t) /\ SubSeq(t, 1, Len(s)) = s

ValidationErrors == {"UnsupportedFormat", "FileAlreadyExists", "NoAudioStream"}

\* C1: across clip and audio invocations, successful or failing, with or
\* without overwrite, the artifacts.jsonl of every output directory only
\* grows: its content before a call is a prefix of its content after it.
C1_LogOnlyGrows == [][\A d \in Dirs : IsPrefix(logs[d], logs'[d])]_vars

\* an overwriting call has appended to a log that already held a line
C1_Witness ==
    /\ last.op \in {"clip", "audio"}
    /\ last.res = "ok"
    /\ last.args.overwrite
    /\ Len(logs[last.args.dir]) = 2

\* C2: a clip call that repeats a request that already succeeded fails with
\* FileAlreadyExists when overwrite is false, changing neither the files nor
\* the log; with overwrite true it is never refused with FileAlreadyExists
\* and, the engine working as in the first call, it succeeds and appends one
\* more line to artifacts.jsonl.
C2_RepeatedClip ==
    [][(last'.op = "clip" /\ nCalls' = nCalls + 1
          /\ Request("clip", last'.args) \in done)
        => IF ~last'.args.overwrite
           THEN /\ last'.res = "FileAlreadyExists"
                /\ files' = files
                /\ logs' = logs
           ELSE /\ last'.res # "FileAlreadyExists"
                /\ last'.args.env = "ok" =>
                     /\ last'.res = "ok"
                     /\ logs'[last'.args.dir] =
                          Append(logs[last'.args.dir],
                                 ArtifactSpec(PathOf(last'.args), last'.args))
                     /\ Len(logs'[last'.args.dir]) >= 2]_vars

\* the repeated request has succeeded with overwrite: the log holds its line twice
C2_Witness ==
    /\ last.op = "clip"
    /\ last.res = "ok"
    /\ last.args.overwrite
    /\ nCalls = 2
    /\ Cardinality(done) = 1
    /\ logs[last.args.dir] =
         <<ArtifactSpec(PathOf(last.args), last.args),
           ArtifactSpec(PathOf(last.args), last.args)>>

\* C3: a call that returns a spec appends exactly one record to the log of
\* its output directory and a call that fails appends none, so the number of
\* lines of each log is the number of successful calls into that directory.
C3_OneRecordPerSuccess ==
    /\ [](\A d \in Dirs : Len(logs[d]) = okCount[d])
    /\ [][nCalls' = nCalls + 1 =>
            \A d \in Dirs :
                Len(logs'[d]) =
                    Len(logs[d]) + (IF last'.res = "ok" /\ last'.args.dir = d
                                    THEN 1 ELSE 0)]_vars

\* a call failed in the engine after a call had succeeded into the same directory
C3_Witness ==
    /\ last.op \in {"clip", "audio"}
    /\ last.res = "FFmpegError"
    /\ nCalls = 2
    /\ Len(logs[last.args.dir]) = 1

\* C4: a clip or audio call that ends in UnsupportedFormat, FileAlreadyExists
\* or NoAudioStream has written no file, has left every artifact log as it
\* was and has started no transcode.
C4_ValidationBeforeEffects ==
    [][(nCalls' = nCalls + 1 /\ last'.res \in ValidationErrors)
        => /\ files' = files
           /\ logs' = logs
           /\ engineRuns' = engineRuns]_vars

\* NoAudioStream on a call allowed to overwrite an output that exists
C4_Witness ==
    /\ last.op = "clip"
    /\ last.res = "NoAudioStream"
    /\ last.args.overwrite
    /\ Exists(files, PathOf(last.args))
    /\ engineRuns = 1

NoAudioVideoClip(c) ==
    /\ c.op = "clip"
    /\ ~HasAudioStream(c.args.src)
    /\ c.args.env # "not_run"

\* the policy gate of clip as stated for the video formats F: on a source
\* without audio stream, a call that got past the format and overwrite
\* checks fails with NoAudioStream when allow_no_audio is false; with
\* allow_no_audio true and the engine working it succeeds, the output is
\* video-only and one record is appended
AudioGate(F) ==
    (nCalls' = nCalls + 1 /\ NoAudioVideoClip(last') /\ last'.args.fmt \in F)
    => IF ~last'.args.allow_no_audio
       THEN last'.res = "NoAudioStream"
       ELSE last'.args.env = "ok" =>
              /\ last'.res = "ok"
              /\ files'[PathOf(last'.args)] = Content("complete", last'.args.src, "v")
              /\ Len(logs'[last'.args.dir]) = Len(logs[last'.args.dir]) + 1

NoAudioAudioCall(c) ==
    /\ c.op = "audio"
    /\ c.args.fmt \in SUPPORTED_AUDIO_FORMATS
    /\ ~HasAudioStream(c.args.src)

\* C6 as stated: audio on a source without audio track always fails with
\* NoAudioStream, for every supported audio format and every value of
\* overwrite, and no output file or log record results.
C6_Original ==
    [][(nCalls' = nCalls + 1 /\ NoAudioAudioCall(last'))
        => /\ last'.res = "NoAudioStream"
           /\ files' = files
           /\ logs' = logs]_vars

\* C6 amended: audio on a source without audio track always fails and leaves
\* the files and the logs as they were, for every supported audio format and
\* every value of overwrite: with FileAlreadyExists when the output path
\* exists and overwrite is false (that check comes first), with
\* NoAudioStream in every other case.
C6_AudioNeedsAudio ==
    [][(nCalls' = nCalls + 1 /\ NoAudioAudioCall(last'))
        => /\ last'.res =
                IF Exists(files, PathOf(last'.args)) /\ ~last'.args.overwrite
                THEN "FileAlreadyExists" ELSE "NoAudioStream"
           /\ files' = files
           /\ logs' = logs]_vars

\* NoAudioStream although the call was allowed to overwrite the existing output
C6_Witness ==
    /\ NoAudioAudioCall(last)
    /\ last.res = "NoAudioStream"
    /\ last.args.overwrite
    /\ Exists(files, PathOf(last.args))
    /\ Len(logs[last.args.dir]) = 1

\* C7: clip fails with UnsupportedFormat for every fmt outside {mp4, mkv,
\* webm, gif} and audio for every fmt outside {m4a, wav, mp3}; a fmt of the
\* operation's own set never raises it; and the rejection creates neither
\* the output directory nor any file.
C7_UnsupportedFormat ==
    [][nCalls' = nCalls + 1 =>
        LET own == IF last'.op = "clip" THEN {"mp4", "mkv", "webm", "gif"}
                   ELSE {"m4a", "wav", "mp3"}
        IN  /\ (last'.res = "UnsupportedFormat") = (last'.args.fmt \notin own)
            /\ last'.res = "UnsupportedFormat" =>
                 /\ dirs' = dirs
                 /\ files' = files
                 /\ logs' = logs]_vars

\* clip has rejected an audio format and its output directory does not exist
C7_Witness ==
    /\ last.op = "clip"
    /\ last.args.fmt = "m4a"
    /\ last.res = "UnsupportedFormat"
    /\ last.args.dir \notin dirs

(***************************************************************************)
(* Properties of the time functions                                        *)
(***************************************************************************)
C8Texts ==
    {<<"8", "3", ".", "5">>, <<"1", ":", "2", "3", ".", "5">>,
     <<"0", "0", ":", "0", "1", ":", "2", "3", ".", "5", "0", "0">>}

\* C8: parse_time yields 83.5 for each of "83.5", "1:23.5" and
\* "00:01:23.500": the digits after '.' are the same fraction of a second in
\* the colon forms as in the bare-float form.
C8_SameFraction ==
    (timeCall.op = "parse_time" /\ timeCall.a \in C8Texts)
        => timeCall.out = Ok(Ms(83500))

DigitText(s, n) == Len(s) = n /\ AllDigits(s)

\* "HH:MM:SS.mmm": hours zero-padded to two digits, minutes 00..59, seconds
\* 00.000..59.999
IsClockText(s) ==
    LET p == Split(s, ":")
    IN  /\ Len(p) = 3
        /\ AllDigits(p[1]) /\ Len(p[1]) >= 2
        /\ Len(p[1]) > 2 => Head(p[1]) # "0"
        /\ DigitText(p[2], 2) /\ DigitsVal(p[2]) <= 59
        /\ Len(p[3]) = 6 /\ p[3][3] = "."
        /\ DigitText(SubSeq(p[3], 1, 2), 2) /\ DigitsVal(SubSeq(p[3], 1, 2)) <= 59
        /\ DigitText(SubSeq(p[3], 4, 6), 3)

ClockText_83_5 == <<"0", "0", ":", "0", "1", ":", "2", "3", ".", "5", "0", "0">>

\* C9 as stated: for a non-negative x of whole milliseconds, format_time(x)
\* is a zero-padded HH:MM:SS.mmm text (minutes 00..59, seconds
\* 00.000..59.999) and parse_time(format_time(x)) == x; and format_time(83.5)
\* is "00:01:23.500".
C9_Original ==
    (timeCall.op = "format_time" /\ WholeMs(timeCall.q))
        => /\ IsClockText(timeCall.str)
           /\ parse_time(timeCall.str) = Ok(timeCall.x)
           /\ timeCall.x = Ms(83500) => timeCall.str = ClockText_83_5

\* C9: for a non-negative x of whole milliseconds, format_time(x) is a
\* zero-padded HH:MM:SS.mmm text (minutes 00..59, seconds 00.000..59.999)
\* that parse_time reads back as x within millisecond rounding: as a float
\* that format_time renders as the same text.  format_time(83.5) is
\* "00:01:23.500", which parse_time reads back as 83.5 itself.
C9_RoundTrip ==
    (timeCall.op = "format_time" /\ WholeMs(timeCall.q))
        => LET back == parse_time(timeCall.str)
           IN  /\ IsClockText(timeCall.str)
               /\ back.ok
               /\ ~back.val.neg
               /\ format_time(back.val) = timeCall.str
               /\ timeCall.x = Ms(83500)
                    => timeCall.str = ClockText_83_5 /\ back.val = timeCall.x

\* format_time was applied to 1.118, which parse_time does not read back as
\* the same float
C9_Witness ==
    /\ timeCall.op = "format_time"
    /\ timeCall.x = Ms(1118)
    /\ timeCall.str = <<"0", "0", ":", "0", "0", ":", "0", "1", ".", "1", "1", "8">>
    /\ parse_time(timeCall.str) # Ok(timeCall.x)

\* C10: parse_range(s, e) fails with TimeRange whenever parse_time(s) >=
\* parse_time(e), equality included, and otherwise returns exactly
\* (parse_time(s), parse_time(e)): ("10", "5") and ("10", "10") fail, and
\* ("5", "10") returns (5.0, 10.0).
C10_ParseRange ==
    timeCall.op = "parse_range" =>
        LET s == parse_time(timeCall.a)
            e == parse_time(timeCall.b)
        IN  /\ (s.ok /\ e.ok) =>
                 timeCall.rng = IF ~FloatLess(s.val, e.val) THEN RangeRaise("TimeRange")
                                ELSE RangeOk(s.val, e.val)
            /\ (timeCall.a = <<"1", "0">> /\ timeCall.b \in {<<"5">>, <<"1", "0">>})
                 => timeCall.rng = RangeRaise("TimeRange")
            /\ (timeCall.a = <<"5">> /\ timeCall.b = <<"1", "0">>)
                 => timeCall.rng = RangeOk(Sec(5), Sec(10))

\* a zero-length range written in two forms was rejected
C10_Witness ==
    /\ timeCall.op = "parse_range"
    /\ timeCall.a = <<"1", ":", "0", "0">>
    /\ timeCall.b = <<"6", "0">>
    /\ timeCall.rng = RangeRaise("TimeRange")

\* the seconds field of a colon form as the three shapes give it: "SS" or
\* "SS.mmm", each an integer text
SecondsShape(t) ==
    LET sp == Split(t, ".")
    IN  Len(sp) \in {1, 2} /\ \A i \in 1..Len(sp) : IsInt(sp[i])

\* MM:SS[.mmm] or HH:MM:SS[.mmm]
ColonShape(s) ==
    LET parts == Split(Strip(s), ":")
    IN  /\ Len(parts) \in {2, 3}
        /\ \A i \in 1..(Len(parts) - 1) : IsInt(parts[i])
        /\ SecondsShape(parts[Len(parts)])

\* C11: parse_time accepts exactly the three shapes (a bare float, MM:SS[.mmm],
\* HH:MM:SS[.mmm]) and fails with InvalidTimeFormat for every other text: one
\* or more than three colon-separated parts that are no float, and sub-parts
\* that are non-numeric, empty, or carry extra '.'-separated fields.
C11_ThreeShapes ==
    timeCall.op = "parse_time"
        => IF IsFloat(timeCall.a) \/ ColonShape(timeCall.a)
           THEN timeCall.out.ok
           ELSE timeCall.out = Raise("InvalidTimeFormat")

(***************************************************************************)
(* Properties of the Manifest Store and of resolve_source                  *)
(***************************************************************************)
\* every manifest.json of the downloads directory is one that
\* write_download_manifest wrote (a stray file of another name may lie there)
OnlyWrittenManifests ==
    \A f \in Foreign(manifests) : f.path[Len(f.path)] # "manifest.json"

WrittenAliases == {a \in Aliases : lastWritten[a] # NoSpec}

\* C12: after any sequence of write_download_manifest calls, a stray file
\* lying in the directory or not, list_downloads returns exactly the aliases
\* whose directory holds a manifest.json, each mapped to the spec most
\* recently written under it; read_download_manifest(alias) returns that
\* spec for a written alias and fails with AliasNotFound for any other; and
\* a write under one alias leaves the manifest of every other alias as it was.
C12_StoreIsMap ==
    [][/\ (storeCall'.op = "list" /\ OnlyWrittenManifests')
            => /\ storeCall'.res.ok
               /\ storeCall'.res.val = [a \in WrittenAliases' |-> lastWritten'[a]]
       /\ (storeCall'.op = "read" /\ OnlyWrittenManifests')
            => storeCall'.res =
                 IF storeCall'.arg \in WrittenAliases'
                 THEN StoreOk(lastWritten'[storeCall'.arg])
                 ELSE StoreRaise("AliasNotFound")
       /\ (storeCall'.op = "write" /\ nWrites' = nWrites + 1)
            => \A p \in DOMAIN manifests :
                  p # ManifestPath(storeCall'.arg)
                    => p \in DOMAIN manifests' /\ manifests'[p] = manifests[p]]_vars

\* the directories of the downloads directory that hold a manifest.json
\* which loads as a DownloadSpec
WellFormedEntries(store) ==
    {p[1] : p \in {q \in GlobManifests(store) : Decode(store[q]).ok}}

\* C13: list_downloads never fails because of one bad entry: a directory
\* whose manifest.json is missing or malformed (no JSON, a field missing, a
\* field too many) is absent from the result, and every well-formed entry
\* of the same downloads directory is returned.
C13_ListTolerant ==
    storeCall.op = "list"
        => /\ storeCall.res.ok
           /\ storeCall.res.val =
                 [n \in WellFormedEntries(manifests) |->
                     Decode(manifests[<<n, "manifest.json">>]).val]

NoneOnDisk(spec) ==
    \A i \in 1..Len(spec.downloaded_files) : spec.downloaded_files[i] \notin media

\* C14: resolve_source(source) fails with NotFoundForAlias whenever a
\* manifest exists for the alias source and none of its listed files exists
\* on disk: the literal-path fallback is never taken after a manifest was
\* found.
C14_NotFoundForAlias ==
    storeCall.op = "resolve"
        => LET m == read_download_manifest(storeCall.arg, manifests)
           IN  (m.ok /\ NoneOnDisk(m.val))
                  => storeCall.res = ResolveRaise("NotFoundForAlias")

\* C15: resolve_source(source) returns the first file of downloaded_files
\* that exists on disk when a manifest exists for the alias source and a
\* listed file exists, earlier entries that no longer exist being skipped;
\* with no manifest it returns source unchanged when source is an existing
\* path and re-raises AliasNotFound when it is not.
C15_ResolveSource ==
    storeCall.op = "resolve"
        => LET source == storeCall.arg
               m == read_download_manifest(source, manifests)
               listed == m.val.downloaded_files
           IN  /\ (m.ok /\ ~NoneOnDisk(m.val))
                    => \E i \in 1..Len(listed) :
                          /\ listed[i] \in media
                          /\ \A j \in 1..(i - 1) : listed[j] \notin media
                          /\ storeCall.res = ResolveOk(listed[i])
               /\ (~Exists(manifests, ManifestPath(source)) /\ source \in media)
                    => storeCall.res = ResolveOk(source)
               /\ (~Exists(manifests, ManifestPath(source)) /\ source \notin media)
                    => storeCall.res = ResolveRaise("AliasNotFound")

\* the second listed file was returned, the first one being gone
C15_Witness ==
    /\ storeCall.op = "resolve"
    /\ storeCall.arg = "alias1"
    /\ lastWritten["alias1"].downloaded_files = <<"m1", "m2">>
    /\ "m1" \notin media
    /\ storeCall.res = ResolveOk("m2")

\* the extraction, or the projection of its result, fails
ExtractionFails(extracted) ==
    \/ extracted.kind \in {"raise", "None"}
    \/ /\ "description" \in DOMAIN extracted.info
       /\ extracted.info["description"].kind = "None"

\* the value of a key of the projection: what was extracted, else the default
Projected(key, url, info) ==
    IF key \in DOMAIN info THEN info[key]
    ELSE CASE key \in {"title", "uploader", "upload_date"} -> "Unknown"
           [] key \in {"duration", "view_count"} -> 0
           [] key = "thumbnail" -> ""
           [] key = "webpage_url" -> url

\* C16: get_info never raises: when the metadata extraction or the
\* projection of its result fails it returns {error: message}, and otherwise
\* the projection with exactly the keys title, duration, uploader,
\* view_count, upload_date, description, thumbnail and webpage_url, the
\* description cut to at most 500 characters, and no error key.
C16_GetInfo ==
    storeCall.op = "get_info"
        => LET url == storeCall.arg.url
               extracted == storeCall.arg.extracted
               res == storeCall.res
           IN  /\ ~res.raised
               /\ IF ExtractionFails(extracted)
                  THEN /\ DOMAIN res.val = {"error"}
                       /\ res.val.error # ""
                  ELSE /\ DOMAIN res.val = InfoKeys
                       /\ \A key \in InfoKeys \ {"description"} :
                             res.val[key] = Projected(key, url, extracted.info)
                       /\ res.val.description.kind = "str"
                       /\ Len(res.val.description.text) <= 500
                       /\ IF "description" \in DOMAIN extracted.info
                          THEN \A i \in 1..Len(res.val.description.text) :
                                 res.val.description.text[i]
                                    = extracted.info["description"].text[i]
                          ELSE res.val.description.text = <<>>

\* a description of 501 characters came back cut to 500
C16_Witness ==
    /\ storeCall.op = "get_info"
    /\ storeCall.arg.extracted.kind = "dict"
    /\ "description" \in DOMAIN storeCall.arg.extracted.info
    /\ Len(storeCall.arg.extracted.info["description"].text) = 501
    /\ ~storeCall.res.raised
    /\ Len(storeCall.res.val.description.text) = 500

\* the operation of the command succeeded: nothing it called reported a
\* failure
Succeeds(cmd, a) ==
    CASE cmd = "pdf" ->
           /\ from_string(a.size) = "ok"
           /\ process_input(a.input, a.found).ok
           /\ process_input(a.input, a.found).n > 0
           /\ ~a.image_errors
           /\ a.save = "ok"
      [] cmd = "resume" ->
           /\ a.exists
           /\ a.suffix \in {".json", ".yaml", ".yml"}
           /\ a.load = "ok" /\ a.validate = "ok" /\ a.generate = "ok"
      [] cmd = "yt download" -> a.download = "ok"
      [] cmd \in {"yt clip", "yt audio"} ->
           a.range = "ok" /\ a.resolve = "ok" /\ a.cut = "ok"
      [] cmd = "yt info" ->
           IF a.is_url THEN ~ExtractionFails(a.extracted)
           ELSE a.resolve = "ok" /\ a.local = "ok"
      [] cmd = "yt list" -> a.list = "ok"

\* C17: every command handler (pdf, resume, yt download, yt clip, yt audio,
\* yt info, yt list) returns 0 when its operation succeeds and 1 on any
\* failure: every error raised below the handler is caught there and turned
\* into the return value 1, none propagates and none yields 0.
C17_ExitCodes ==
    cmdCall.cmd # "none"
        => cmdCall.res = IF Succeeds(cmdCall.cmd, cmdCall.args)
                         THEN CmdReturn(0)
                         ELSE CmdReturn(1)

(***************************************************************************)
(* Properties of the Cutter's error reporting                              *)
(***************************************************************************)
\* the call asked the engine for something and the engine failed: a probe
\* of the source (clip into a video format, audio) or the transcode (reached
\* by gif always, by the video formats past the audio gate, by audio on a
\* source with an audio stream)
EngineFailure(c) ==
    /\ c.op \in {"clip", "audio"}
    /\ \/ /\ c.args.env = "probe_error"
          /\ c.op = "clip" => c.args.fmt # "gif"
       \/ /\ c.args.env \in {"fail_early", "fail_partial"}
          /\ \/ c.op = "clip" /\ c.args.fmt = "gif"
             \/ c.op = "clip" /\ HasAudioStream(c.args.src)
             \/ c.op = "clip" /\ c.args.allow_no_audio
             \/ c.op = "audio" /\ HasAudioStream(c.args.src)

\* C18: any failure of the external engine during clip or audio (non-zero
\* exit of the transcode, failure of either GIF stage, an error from a probe
\* call) reaches the caller as FFmpegError: never as another error type and
\* never as a non-error outcome.
C18_EngineFailure ==
    EngineFailure(last) => last.res = "FFmpegError"

\* C20: every ClipSpec/AudioSpec that clip or audio appends to an artifact
\* log has start < end, the ordering being enforced before the spec is
\* constructed: no call with start >= end produces an output file or a
\* record.
C20_StartBeforeEnd ==
    /\ \A d \in Dirs : \A i \in 1..Len(logs[d]) :
          FloatLess(logs[d][i].start, logs[d][i].end)
    /\ (last.op \in {"clip", "audio"} /\ FloatGE(last.args.start, last.args.end))
          => /\ files = EmptyFiles
             /\ \A d \in Dirs : logs[d] = <<>>

(***************************************************************************)
(* Properties of the fit-to-page computation                               *)
(***************************************************************************)
FromInt(n) == Dyadic(FALSE, n, <<>>)

\* a value cut to 24 binary places, and the next such value
Cut(f) == [int |-> f.int, bits |-> PadTo(f.frac, 24)]

Succ(t) ==
    LET inc == IncBits(t.bits)
    IN  [int |-> t.int + inc.carry, bits |-> inc.bits]

Same(f, g) == f = g

LessEq(f, g) == ~FloatLess(g, f)

\* f and g cut to 24 binary places are equal or adjacent: they differ by
\* less than 2^-23
Near(f, g) ==
    /\ f.neg = g.neg
    /\ \/ Cut(f) = Cut(g) \/ Succ(Cut(f)) = Cut(g) \/ Succ(Cut(g)) = Cut(f)

LessOrNear(f, g) == FloatLess(f, g) \/ Near(f, g)

\* the four properties of the rectangle returned for the latest call, with
\* equality read as Eq and "at most" as Le: the aspect ratio is kept, the
\* rectangle lies within the usable area, it fills the usable area along one
\* axis, and it is centered on the page
FitProperties(Eq(_, _), Le(_, _)) ==
    LET o == fitCall.out
        page_width == PaperSize[fitCall.size][1]
        page_height == PaperSize[fitCall.size][2]
    IN  /\ Eq(ExactTimes(fitCall.img_height, o.scaled_width),
              ExactTimes(fitCall.img_width, o.scaled_height))
        /\ Le(FromInt(DefaultMargin), o.x)
        /\ Le(FromInt(DefaultMargin), o.y)
        /\ Le(ExactPlus(o.x, o.scaled_width), FromInt(page_width - DefaultMargin))
        /\ Le(ExactPlus(o.y, o.scaled_height), FromInt(page_height - DefaultMargin))
        /\ \/ Eq(o.scaled_width, FromInt(page_width - 2 * DefaultMargin))
           \/ Eq(o.scaled_height, FromInt(page_height - 2 * DefaultMargin))
        /\ Eq(ExactPlus(ExactPlus(o.x, o.x), o.scaled_width), FromInt(page_width))
        /\ Eq(ExactPlus(ExactPlus(o.y, o.y), o.scaled_height), FromInt(page_height))

\* C19 as stated: for any image with positive width and height and any paper
\* size with the 36-unit margin, the rectangle returned by calculate_fit_size
\* preserves the aspect ratio, lies entirely within the usable area, fills
\* the usable area along the constraining axis and is centered, exactly.
C19_Original ==
    fitCall.op = "calculate_fit_size" => FitProperties(Same, LessEq)

\* C19: the same four properties up to floating-point rounding: every
\* equality and every bound holds to within 2^-23 of a unit; for the
\* 2000x1000 image on A4 they hold exactly, the rectangle being
\* (36.0, 290.25, 523.0, 261.5).
C19_FitSize ==
    /\ fitCall.op = "calculate_fit_size" => FitProperties(Near, LessOrNear)
    /\ (fitCall.op = "calculate_fit_size" /\ fitCall.img_width = 2000
          /\ fitCall.img_height = 1000 /\ fitCall.size = "A4")
         => FitProperties(Same, LessEq)

\* the 2000x1000 image placed on A4
C19_Witness ==
    /\ fitCall.op = "calculate_fit_size"
    /\ fitCall.img_width = 2000
    /\ fitCall.img_height = 1000
    /\ fitCall.size = "A4"
    /\ fitCall.out = [x |-> FromInt(36), y |-> Dyadic(FALSE, 290, <<0, 1>>),
                      scaled_width |-> FromInt(523),
                      scaled_height |-> Dyadic(FALSE, 261, <<1>>)]

(***************************************************************************)
(* Properties of clip and audio run statement by statement                 *)
(***************************************************************************)
\* the step of the state machine a statement belongs to
StepOf(stmt) ==
    CASE stmt = "format" -> "validate"
      [] stmt = "mkdir" -> "prepare"
      [] stmt = "overwrite" -> "check overwrite"
      [] stmt \in {"probe", "probe_codec"} -> "probe"
      [] stmt \in {"engine", "palettegen", "paletteuse"} -> "engine"
      [] stmt = "hash" -> "hash + timestamp"
      [] stmt = "append" -> "persist"

\* the engine has completed: the transcode, or the second stage of the
\* palette pipeline
EngineCompleted(d, i) ==
    \E j \in 1..(i - 1) : d[j] \in {"engine", "paletteuse"}

\* every statement of step y comes after some statement of step x
Requires(d, x, y) ==
    \A j \in DOMAIN d :
        StepOf(d[j]) = y => \E i \in 1..(j - 1) : StepOf(d[i]) = x

\* no statement of step x comes after a statement of step y
NotAfter(d, x, y) ==
    \A i, j \in DOMAIN d :
        StepOf(d[i]) = y /\ StepOf(d[j]) = x => j < i

FormatUnsupported(op, a) ==
    a.fmt \notin (IF op = "clip" THEN SUPPORTED_VIDEO_FORMATS
                  ELSE SUPPORTED_AUDIO_FORMATS)

TargetExists(fs, a) == Exists(fs, PathOf(a)) /\ ~a.overwrite

\* the source has no audio stream and the call needs one
AudioMissing(op, a) ==
    /\ ~HasAudioStream(a.src)
    /\ \/ op = "audio"
       \/ a.fmt # "gif" /\ ~a.allow_no_audio

EngineFails(a) == a.env \in {"fail_early", "fail_partial"}

\* a call has just returned or raised
Called == nCalls' = nCalls + 1

Finished(heard) ==
    {i \in DOMAIN heard :
        heard[i].status = "finished" /\ reported_path(heard[i]) # <<>>}

\* of those, the ones that report their path for the first time
FirstReports(heard) ==
    {i \in Finished(heard) :
        \A j \in Finished(heard) :
            reported_path(heard[j]) = reported_path(heard[i]) => i <= j}

\* the elements of a set of numbers in increasing order
RECURSIVE Ascending(_)
Ascending(S) ==
    IF S = {} THEN <<>>
    ELSE LET m == CHOOSE x \in S : \A y \in S : x <= y
         IN  <<m>> \o Ascending(S \ {m})

\* one {path, ext, filesize} record per path, in the order of first report
ExpectedFiles(heard) ==
    LET firsts == Ascending(FirstReports(heard))
    IN  [k \in DOMAIN firsts |->
            [path |-> reported_path(heard[firsts[k]]),
             ext |-> IF reported_path(heard[firsts[k]]) = MediaFile1
                     THEN <<"mp4">> ELSE <<>>,
             filesize |-> heard[firsts[k]].total_bytes]]

\* C23: whatever the notifications of a download, downloaded_files holds one
\* record per distinct path reported as finished, in the order of first
\* report; a repeated report and a "downloading" notification add none
C23_OneRecordPerPath ==
    dl.phase = "downloading" => dl.files = ExpectedFiles(dl.heard)

\* two paths were reported, the first of them twice, and progress in between
C23_Witness ==
    /\ dl.phase = "downloading"
    /\ Len(dl.files) = 2
    /\ Len(dl.heard) = 3
    /\ Cardinality(Finished(dl.heard)) = 3

\* the download that is running returns and writes its manifest
Returning == dl.phase = "downloading" /\ dl'.phase = "returned"

\* C30: the manifest of a download is written under its alias (the video
\* id when no alias is given) when the download returns, after extraction
\* and the engine's download have both returned; a download that raises
\* leaves every manifest as it was; the manifest lists the files reported
\* during that download and no file of an earlier one
C30_ManifestAtTheEnd ==
    [][/\ dlStore' # dlStore => Returning
       /\ dl'.phase = "raised" => dlStore' = dlStore
       /\ Returning =>
            LET alias == IF dl.alias = NoAlias
                         THEN Get(dl.info, "id", "unknown") ELSE dl.alias
                path == ManifestPath(alias)
            IN  /\ Exists(dlStore', path)
                /\ dlStore'[path].data.downloaded_files = ExpectedFiles(dl.heard)
                /\ \A q \in DOMAIN dlStore :
                      q # path => Exists(dlStore', q) /\ dlStore'[q] = dlStore[q]
                /\ DOMAIN dlStore' = DOMAIN dlStore \cup {path}]_vars

\* a second download by the same instance has returned, with no alias given
\* and nothing reported, after a first one that reported a file
C30_Witness ==
    /\ dl.n = 2
    /\ dl.phase = "returned"
    /\ dl.alias = NoAlias
    /\ dl.files = <<>>
    /\ Exists(dlStore, ManifestPath("alias1"))
    /\ dlStore[ManifestPath("alias1")].data.downloaded_files # <<>>
    /\ Exists(dlStore, ManifestPath("id1"))
    /\ dlStore[ManifestPath("id1")].data.downloaded_files = <<>>

(***************************************************************************)
(* Properties of the construction of a Cutter                              *)
(***************************************************************************)
ExplicitGiven(a) == a.ffmpeg_bin \notin {"None", ""}

\* C24: the binary is looked for at the explicit path, then by the bundled
\* locator, then in the environment; an explicit path that does not exist
\* is FFmpegNotFound; without one the first locator that finds a binary is
\* used; when none finds one, however the bundled locator fails, the
\* construction fails with FFmpegNotFound and no other error
C24_Resolution ==
    ensureCall.op = "Cutter" =>
        LET a == ensureCall.args
            out == ensureCall.out
        IN  /\ out.res \in {"ok", "FFmpegNotFound"}
            /\ ExplicitGiven(a) /\ ~a.exists => out.res = "FFmpegNotFound"
            /\ ~ExplicitGiven(a) /\ a.bundled = "found"
                  => out = Ensured("bundled")
            /\ ~ExplicitGiven(a) /\ a.bundled # "found" /\ a.on_path
                  => out = Ensured("environment")
            /\ ~ExplicitGiven(a) /\ a.bundled # "found" /\ ~a.on_path
                  => out.res = "FFmpegNotFound"

(***************************************************************************)
(* Properties of the commands' failure handling                            *)
(***************************************************************************)
\* an engine call, a network fetch or a file operation that the command
\* reached has failed; the metadata lookup of get_info is left out
OperationFailed(cmd, a) ==
    CASE cmd = "pdf" ->
           /\ from_string(a.size) = "ok"
           /\ \/ ~process_input(a.input, a.found).ok
              \/ /\ process_input(a.input, a.found).n > 0
                 /\ a.image_errors \/ a.save # "ok"
      [] cmd = "resume" ->
           /\ a.exists
           /\ a.suffix \in {".json", ".yaml", ".yml"}
           /\ \/ a.load = "OSError"
              \/ /\ a.load = "ok"
                 /\ a.validate = "ok"
                 /\ \/ a.font \in {"FontNotFound", "FontDownloadError"}
                    \/ a.generate # "ok"
      [] cmd = "yt download" -> a.download # "ok"
      [] cmd \in {"yt clip", "yt audio"} ->
           a.range = "ok" /\ (a.resolve # "ok" \/ a.cut # "ok")
      [] cmd = "yt info" -> ~a.is_url /\ (a.resolve # "ok" \/ a.local # "ok")
      [] cmd = "yt list" -> a.list # "ok"

\* the command ended in failure: the handler returned 1, or an exception
\* left it
CommandFailed(res) == res = CmdReturn(1) \/ ~res.returned

\* C26: no failure is swallowed except in get_info: a failed engine call,
\* network fetch or file operation makes the command fail; the pdf command
\* fails when an input image cannot be processed, the resume command when
\* the requested font cannot be resolved
C26_NothingSwallowed ==
    cmdCall.cmd # "none" /\ OperationFailed(cmdCall.cmd, cmdCall.args)
        => CommandFailed(cmdCall.res)

(***************************************************************************)
(* Properties of two invocations running at the same time                  *)
(***************************************************************************)
\* invocation p is at its existence check and runs it
ChecksOverwrite(p) ==
    /\ proc[p].op # "none"
    /\ proc[p].res = "none"
    /\ Statements(proc[p].op, proc[p].args.fmt)[proc[p].pc] = "overwrite"
    /\ proc'[p] # proc[p]

\* C25: nothing but the disk decides the existence check: it lets an
\* invocation through whenever the output file is not there at that moment,
\* wherever the other invocation stands; so of two invocations with the same
\* arguments and overwrite=False both can pass, both run the engine on the
\* one path and both append a record
C25_NoLock ==
    [][\A p \in Invocations :
          ChecksOverwrite(p) /\ ~Exists(shared.files, PathOf(proc[p].args))
             => proc'[p].res = "none" /\ proc'[p].pc = proc[p].pc + 1]_vars

\* both invocations returned with overwrite=False, and the log holds two
\* records of the one artifact
C25_Witness ==
    /\ \A p \in Invocations : proc[p].res = "ok" /\ ~proc[p].args.overwrite
    /\ LET a == proc["p1"].args
       IN  /\ Len(shared.logs[a.dir]) = 2
           /\ shared.logs[a.dir][1] = shared.logs[a.dir][2]
           /\ Exists(shared.files, PathOf(a))

(***************************************************************************)
(* Properties of the artifact log and the files it names                   *)
(***************************************************************************)
Complete(fs, path) == Exists(fs, path) /\ fs[path].st = "complete"

\* C27 as stated: whatever calls were made, failed overwriting ones included,
\* every record of artifacts.jsonl names a file that exists and is the
\* complete output of a successful run
C27_LoggedIsComplete ==
    \A d \in Dirs : \A i \in DOMAIN logs[d] :
        Complete(files, logs[d][i].artifact_path)

\* C27 amended: every record names a file that exists, and that was the
\* complete output of a successful run when the record was appended; only a
\* later run on the same output path with overwrite=True whose engine fails
\* leaves a logged artifact partially written, and none leaves it missing
C27_CompleteWhenLogged ==
    [][/\ \A d \in Dirs : \A i \in DOMAIN logs'[d] :
             /\ Exists(files', logs'[d][i].artifact_path)
             /\ i > Len(logs[d]) => Complete(files', logs'[d][i].artifact_path)
       /\ \A d \in Dirs : \A i \in DOMAIN logs[d] :
             LET path == logs[d][i].artifact_path
             IN  Complete(files, path) /\ ~Complete(files', path)
                    => /\ last'.res = "FFmpegError"
                       /\ last'.args.overwrite
                       /\ PathOf(last'.args) = path]_vars

\* a logged artifact has been overwritten by a run that failed
C27_Witness ==
    /\ last.res = "FFmpegError"
    /\ last.args.overwrite
    /\ \E d \in Dirs : \E i \in DOMAIN logs[d] :
          /\ logs[d][i].artifact_path = PathOf(last.args)
          /\ Exists(files, PathOf(last.args))
          /\ files[PathOf(last.args)].st = "partial"

(***************************************************************************)
(* Properties of the files a call leaves alone                             *)
(***************************************************************************)
\* the file at path is in fs2 what it was in fs1: absent in both, or present
\* in both with the same content
Untouched(fs1, fs2, path) ==
    /\ Exists(fs1, path) = Exists(fs2, path)
    /\ Exists(fs1, path) => fs2[path] = fs1[path]

\* C28: a call of clip or audio changes no file but the one at its output
\* path (and the log): every file that was there before, the one named like
\* the output with the suffix png included, is there afterwards as it was,
\* and no other file is left behind, the palette of the gif pipeline least of
\* all, whether the call returns or raises
C28_OnlyTheOutput ==
    [][Called =>
         \A path \in (DOMAIN files) \cup (DOMAIN files')
                        \cup {with_suffix(PathOf(last'.args), "png")} :
            path # PathOf(last'.args) => Untouched(files, files', path)]_vars

(***************************************************************************)
(* Properties of the output path                                           *)
(***************************************************************************)
\* the start and the end of two requests are written alike
SameTimeTexts(r1, r2) ==
    /\ format_time(r1.start) = format_time(r2.start)
    /\ format_time(r1.end) = format_time(r2.end)

\* same stem, same format, same HH:MM:SS.mmm strings
SameNameParts(r1, r2) ==
    /\ stem(r1.src) = stem(r2.src)
    /\ r1.fmt = r2.fmt
    /\ SameTimeTexts(r1, r2)

\* C29 as stated: two requests into one directory get the same output path
\* exactly when stem, format and formatted times agree, and requests for
\* different source files never get the same path
C29_NoCollision ==
    pathCall.op # "none" =>
        /\ (pathCall.p1 = pathCall.p2) = SameNameParts(pathCall.r1, pathCall.r2)
        /\ pathCall.r1.src # pathCall.r2.src => pathCall.p1 # pathCall.p2

\* C29 amended: two requests into one directory get the same output path
\* exactly when stem, format and formatted times agree; requests for
\* different source files get the same path when the files have the same
\* stem, and never otherwise
C29_SamePath ==
    pathCall.op # "none" =>
        /\ (pathCall.p1 = pathCall.p2) = SameNameParts(pathCall.r1, pathCall.r2)
        /\ stem(pathCall.r1.src) # stem(pathCall.r2.src)
              => pathCall.p1 # pathCall.p2

\* two different source files and two different start values, one path
C29_Witness ==
    /\ pathCall.op # "none"
    /\ pathCall.r1.src # pathCall.r2.src
    /\ pathCall.r1.start # pathCall.r2.start
    /\ pathCall.r1.end # pathCall.r2.end
    /\ pathCall.p1 = pathCall.p2

====
